---- MODULE Spec2Model ----
(***************************************************************************)
(* Model of the SneakDex indexer service (services/indexer/src):           *)
(*   orchestrator.py  ModernIndexer: validation, deduplication, embedding, *)
(*                    point construction and the two retrying sink upserts *)
(*   consumer.py      run_consumer / _process_batch: the Kafka poll loop,  *)
(*                    batching, flushing and shutdown                      *)
(* Strings are sequences of one-character strings, so that str.strip() and *)
(* string concatenation are computed and not assumed.                      *)
(***************************************************************************)
EXTENDS Integers, Sequences, FiniteSets, TLC

VARIABLES
    \* ---- ModernIndexer fields -------------------------------------------
    url_cache,            \* self._url_cache
    content_hashes,       \* self._content_hashes
    min_content_length,   \* self.min_content_length
    batch_size,           \* config.batch_size (also self.batch_size)
    \* ---- one index_batch execution (locals of the call in progress) ------
    ipc,                  \* position inside index_batch
    documents,            \* argument of index_batch
    valid_docs,           \* accepted documents of the batch
    valid_images,         \* images extracted from the accepted documents
    img_embeddings,       \* result of the image encode call
    doc_points,           \* points built for the document collection
    img_points,           \* points built for the image collection
    supabase_rows,        \* rows built for the relational store
    chunk,                \* start index of the current image chunk (0-based)
    sent,                 \* sink calls of this batch that returned, in order
    stats,                \* IndexingStats of the batch
    result,               \* how the last index_batch ended
    retry,                \* the retrying upsert in progress / last finished
    attempted,            \* sinks called at least once in this batch
    exhausted,            \* sinks whose retries were exhausted in this batch
    \* ---- the external stores ---------------------------------------------
    qdrant_docs,          \* document collection: set of points (by id)
    qdrant_images,        \* image collection: set of point ids
    supabase_table,       \* relational table "documents": set of rows (by id)
    q_written,            \* ids upserted to Qdrant since the caches were empty
    s_written,            \* ids upserted to Supabase since the caches were empty
    vlog,                 \* verdicts of the validator since the caches were empty
    ndocs,                \* records handed to index_batch so far
    \* ---- run_consumer ----------------------------------------------------
    cstate,               \* position inside run_consumer
    stop_event,           \* asyncio.Event shared with main_async
    batch,                \* pending records
    total_consumed,       \* total_consumed
    max_docs,             \* config.max_docs (0 stands for None)
    offset,               \* offset of the last message delivered by the broker
    MESSAGES_CONSUMED,    \* Prometheus counters of monitor.py
    MESSAGES_FAILED,
    BATCHES_INDEXED,
    flushes,              \* batches handed to index_batch by the consumer
    last_poll,            \* what the last consumer.poll returned
    closed,               \* number of consumer.close() calls
    \* ---- monitor.py ------------------------------------------------------
    kafka_brokers,        \* config.kafka_brokers
    CURRENT_VECTORS,      \* Prometheus gauge set by the health handler
    health_response,      \* body of the last /health response
    probe,                \* what the two stores did during the last probe
    mstate,               \* position inside start_monitor_server
    \* ---- build_embedding_text (locals of one call) ------------------------
    embed_doc,            \* argument of build_embedding_text
    pieces,               \* pieces, by the section that appended them
    joined,               \* " ".join(filter(None, pieces)).strip()
    embedding_text,       \* the returned text
    \* ---- main.py ----------------------------------------------------------
    main_pc,              \* position inside main() / main_async()
    exit_code,            \* value main() returned
    failed_dep            \* the dependency whose start-up failed

cacheVars    == <<url_cache, content_hashes, min_content_length, batch_size>>
batchVars    == <<ipc, documents, valid_docs, valid_images, img_embeddings,
                  doc_points, img_points, supabase_rows, chunk, sent, stats,
                  result, retry, attempted, exhausted>>
storeVars    == <<qdrant_docs, qdrant_images, supabase_table, q_written,
                  s_written, vlog, ndocs>>
consumerVars == <<cstate, stop_event, batch, total_consumed, max_docs, offset,
                  MESSAGES_CONSUMED, MESSAGES_FAILED, BATCHES_INDEXED, flushes,
                  last_poll, closed>>
monitorVars  == <<kafka_brokers, CURRENT_VECTORS, health_response, probe,
                  mstate>>
textVars     == <<embed_doc, pieces, joined, embedding_text>>
mainVars     == <<main_pc, exit_code, failed_dep>>
vars == <<cacheVars, batchVars, storeVars, consumerVars, monitorVars,
          textVars, mainVars>>

----------------------------------------------------------------------------
\* Bounds of the model

\* records handed to index_batch over one run (direct calls)
MaxDocs == 2
\* largest batch of one direct index_batch call
MaxBatchLen == 2
\* largest configured batch size
MaxBatchSize == 2
\* messages the broker delivers over one consumer run
MaxMessages == 3
\* blanks before and after a body handed to build_embedding_text
MaxPad == 1
\* how far the body lengths range around the long-content threshold
MaxOver == 1

\* self.retry_attempts: getattr(config, "retry_attempts", 3); IndexerConfig
\* has no such field, so the default is what runs
retry_attempts == 3

----------------------------------------------------------------------------
\* Strings

\* str.strip() removes blanks, tabs and line ends
IsSpace(c) == c \in {" ", "\t", "\n"}

RECURSIVE LStrip(_)
LStrip(s) == IF s # <<>> /\ IsSpace(Head(s)) THEN LStrip(Tail(s)) ELSE s

RECURSIVE RStrip(_)
RStrip(s) ==
    IF s # <<>> /\ IsSpace(s[Len(s)]) THEN RStrip(SubSeq(s, 1, Len(s) - 1)) ELSE s

\* str.strip()
Strip(s) == RStrip(LStrip(s))

\* JSON null / Python None in a field that normally holds a string
None == <<"<None>">>

\* Python truthiness of a str or None
Truthy(s) == s # <<>> /\ s # None

\* str(s) as an f-string renders it
Format(s) == IF s = None THEN <<"N", "o", "n", "e">> ELSE s

\* "".join of two strings
Cat(s, t) == s \o t

----------------------------------------------------------------------------
\* Parsed-page records (the dicts decoded from the broker's JSON)

Image(src, alt) == [src |-> src, alt |-> alt]

Doc(url, title, text, images) ==
    [url |-> url, title |-> title, cleaned_text |-> text, images |-> images]

\* The records the drivers feed: a repeated URL with different content, two
\* URLs with the same content, a URL with trailing whitespace, a record
\* without URL, one without title and body, one whose body is JSON null (its
\* point cannot be built) and one with images (a captioned one, a
\* caption-less one and a placeholder).
PageA1   == Doc(<<"a">>, <<"t">>, <<"x">>, <<>>)
PageA2   == Doc(<<"a">>, <<"t">>, <<"y">>, <<>>)
PageB1   == Doc(<<"b">>, <<"t">>, <<"x">>, <<>>)
PagePad1 == Doc(<<"a", " ">>, <<"t">>, <<"x", "x">>, <<>>)
PagePad2 == Doc(<<"a", " ">>, <<"t">>, <<"y", "y">>, <<>>)
PageNoUrl == Doc(<<>>, <<"t">>, <<"x">>, <<>>)
PageEmpty == Doc(<<"b">>, <<>>, <<>>, <<>>)
PageNull  == Doc(<<"d">>, <<"t">>, None, <<>>)
PageImgs ==
    Doc(<<"c">>, <<"u">>, <<>>,
        << Image(<<"p">>, <<"k">>), Image(<<"q">>, <<>>),
           Image(<<"about:blank">>, <<"k">>) >>)

\* a page whose first image has no alt text and whose second has
PageImgsMixed ==
    Doc(<<"e">>, <<"v">>, <<>>,
        << Image(<<"r">>, <<>>), Image(<<"s">>, <<"k">>) >>)

Records ==
    {PageA1, PageA2, PageB1, PagePad1, PagePad2, PageNoUrl, PageEmpty, PageNull,
     PageImgs, PageImgsMixed}

----------------------------------------------------------------------------
\* ModernIndexer: validation and deduplication

\* uuid5(NAMESPACE_URL, source): a function of the source string alone, and
\* injective for all practical purposes
generate_doc_id(source) == <<"uuid5", source>>

\* _validate_document with the length test applied to an empty body too
\* (`len(content.strip()) < self.min_content_length` without `content and`)
ValidateDocumentLengthOfEmpty(doc, cache, minlen) ==
    IF ~Truthy(doc.url) THEN "Missing URL"
    ELSE IF ~Truthy(doc.title) /\ ~Truthy(doc.cleaned_text)
         THEN "Missing both title and content"
    ELSE IF doc.cleaned_text # None /\ Len(Strip(doc.cleaned_text)) < minlen
         THEN "Content too short"
    ELSE IF Strip(doc.url) \in cache THEN "Duplicate URL"
    ELSE "Valid"

\* _validate_document: the reason string it returns
ValidateDocument(doc, cache, minlen) ==
    IF ~Truthy(doc.url) THEN "Missing URL"
    ELSE IF ~Truthy(doc.title) /\ ~Truthy(doc.cleaned_text)
         THEN "Missing both title and content"
    ELSE IF Truthy(doc.cleaned_text) /\ Len(Strip(doc.cleaned_text)) < minlen
         THEN "Content too short"
    ELSE IF Strip(doc.url) \in cache THEN "Duplicate URL"
    ELSE "Valid"

\* "duplicate" in reason.lower(), for the reasons _validate_document returns
ReasonIsDuplicate(reason) == reason = "Duplicate URL"

\* _compute_content_hash as it would be if the URL were hashed along with the
\* title and the body
ComputeContentHashWithUrl(doc) ==
    Strip(Cat(Cat(Cat(Format(doc.url), <<"|">>),
                  Cat(Format(doc.title), <<"|">>)), Format(doc.cleaned_text)))

\* _compute_content_hash: md5 of f"{title}|{content}".strip(); md5 is taken
\* to be collision-free, so the digest is identified with the hashed string
ComputeContentHash(doc) ==
    Strip(Cat(Cat(Format(doc.title), <<"|">>), Format(doc.cleaned_text)))

\* _extract_and_process_images
RECURSIVE ExtractImages(_, _)
ExtractImages(doc, i) ==
    IF i > Len(doc.images) THEN <<>>
    ELSE LET img == doc.images[i]
             src == Strip(img.src)
         IN  IF ~Truthy(src) \/ src = <<"about:blank">>
             THEN ExtractImages(doc, i + 1)
             ELSE << [src |-> img.src, alt |-> img.alt,
                      id |-> generate_doc_id(src),
                      page_url |-> doc.url, page_title |-> doc.title] >>
                  \o ExtractImages(doc, i + 1)

NewStats(n) ==
    [total_docs |-> n, successful_docs |-> 0, failed_docs |-> 0,
     duplicate_docs |-> 0, total_images |-> 0, successful_images |-> 0,
     failed_images |-> 0]

\* One iteration of the loop of _process_and_validate_batch on the
\* accumulated state acc
ValidateOne(acc, doc, minlen) ==
    LET reason == ValidateDocument(doc, acc.url_cache, minlen)
        hash   == ComputeContentHash(doc)
        images == ExtractImages(doc, 1)
    IN  IF reason # "Valid"
        THEN IF ReasonIsDuplicate(reason)
             THEN [acc EXCEPT !.stats.duplicate_docs = @ + 1,
                              !.vlog = Append(@, [doc |-> doc, verdict |-> "duplicate"])]
             ELSE [acc EXCEPT !.stats.failed_docs = @ + 1,
                              !.vlog = Append(@, [doc |-> doc, verdict |-> "failed"])]
        ELSE IF hash \in acc.content_hashes
        THEN [acc EXCEPT !.stats.duplicate_docs = @ + 1,
                         !.vlog = Append(@, [doc |-> doc, verdict |-> "duplicate"])]
        ELSE [acc EXCEPT
                 !.valid_docs = Append(@, [url |-> doc.url, title |-> doc.title,
                                           cleaned_text |-> doc.cleaned_text,
                                           images |-> doc.images,
                                           id |-> generate_doc_id(doc.url),
                                           content_hash |-> hash]),
                 !.url_cache = @ \cup {doc.url},
                 !.content_hashes = @ \cup {hash},
                 !.all_images = @ \o images,
                 !.stats.total_images = @ + Len(images),
                 !.vlog = Append(@, [doc |-> doc, verdict |-> "accepted"])]

RECURSIVE ValidateFrom(_, _, _, _)
ValidateFrom(acc, docs, i, minlen) ==
    IF i > Len(docs) THEN acc
    ELSE ValidateFrom(ValidateOne(acc, docs[i], minlen), docs, i + 1, minlen)

\* _process_and_validate_batch: the loop, then stats.successful_docs
ProcessAndValidateBatch(docs, cache, hashes, minlen, st, log) ==
    LET acc == ValidateFrom([valid_docs |-> <<>>, all_images |-> <<>>,
                             url_cache |-> cache, content_hashes |-> hashes,
                             stats |-> st, vlog |-> log],
                            docs, 1, minlen)
    IN  [acc EXCEPT !.stats.successful_docs = Len(acc.valid_docs)]

----------------------------------------------------------------------------
\* ModernIndexer: embeddings and points

\* build_image_caption: alt text, then "from: <page title>" when there is
\* alt text (the records carry no image title)
BuildImageCaption(img) ==
    LET alt_text   == IF Truthy(img.alt) THEN Strip(img.alt) ELSE <<>>
        page_title == IF Truthy(img.page_title) THEN Strip(img.page_title) ELSE <<>>
    IN  IF ~Truthy(alt_text) THEN <<>>
        ELSE IF Truthy(page_title)
             THEN alt_text \o <<" ", "f", "r", "o", "m", ":", " ">> \o page_title
             ELSE alt_text

\* [c for c in captions if c and c.strip()]
RECURSIVE ValidCaptions(_, _)
ValidCaptions(images, i) ==
    IF i > Len(images) THEN <<>>
    ELSE LET c == BuildImageCaption(images[i])
         IN  (IF Truthy(c) /\ Truthy(Strip(c)) THEN <<c>> ELSE <<>>)
             \o ValidCaptions(images, i + 1)

\* model.encode on one text: the vector is a function of the text
Encode(text) == <<"vector", text>>

\* _create_document_payload raises on doc.get("cleaned_text", "")[:500] when
\* the body is None
PayloadRaises(doc) == doc.cleaned_text = None

\* the loop over documents of _create_and_upsert_points: the points built
RECURSIVE DocPoints(_, _)
DocPoints(docs, i) ==
    IF i > Len(docs) THEN <<>>
    ELSE (IF PayloadRaises(docs[i]) THEN <<>>
          ELSE << [id |-> docs[i].id, url |-> docs[i].url,
                   content_hash |-> docs[i].content_hash] >>)
         \o DocPoints(docs, i + 1)

\* _create_supabase_row, for the documents whose point was built
RECURSIVE SupabaseRows(_, _)
SupabaseRows(docs, i) ==
    IF i > Len(docs) THEN <<>>
    ELSE (IF PayloadRaises(docs[i]) THEN <<>>
          ELSE << [id |-> docs[i].id, url |-> docs[i].url,
                   title |-> docs[i].title] >>)
         \o SupabaseRows(docs, i + 1)

\* the documents of the batch whose point could not be built
RECURSIVE FailedPoints(_, _)
FailedPoints(docs, i) ==
    IF i > Len(docs) THEN 0
    ELSE (IF PayloadRaises(docs[i]) THEN 1 ELSE 0) + FailedPoints(docs, i + 1)

\* the loop over images of _create_and_upsert_points: image i gets
\* img_embeddings[i] as long as i < len(img_embeddings)
RECURSIVE ImagePoints(_, _, _)
ImagePoints(images, embeddings, i) ==
    IF i > Len(images) \/ i > Len(embeddings) THEN <<>>
    ELSE << [id |-> images[i].id, vector |-> embeddings[i]] >>
         \o ImagePoints(images, embeddings, i + 1)

Ids(points) == [i \in 1..Len(points) |-> points[i].id]
Range(seq) == {seq[i] : i \in 1..Len(seq)}

\* an insert that keeps the entry already stored under the same id
UpsertInserts(store, items) == store \cup Range(items)

\* upsert by id: a point or row replaces the one stored under the same id,
\* and of two items of one request with the same id the later one stays
\* (ids are the keys of the collection and of the table)
Upsert(store, items) ==
    {p \in store : p.id \notin Range(Ids(items))}
    \cup {items[k] : k \in {i \in 1..Len(items) :
                               \A l \in (i + 1)..Len(items) :
                                   items[l].id # items[i].id}}

----------------------------------------------------------------------------
\* ModernIndexer: the retrying upserts

\* state of one _upsert_*_with_retry invocation: the loop variable, the sink
\* calls made, the answers the sink gave, and what was logged and slept
NoRetry ==
    [label |-> "none", attempt |-> 0, calls |-> 0, outcomes |-> <<>>,
     warnings |-> 0, errors |-> 0, data_errors |-> 0, sleeps |-> <<>>,
     status |-> "idle"]

FreshRetry(label) == [NoRetry EXCEPT !.label = label, !.status = "running"]

\* the invocation an attempt belongs to: the one in progress, or a new one
CurrentRetry(label) == IF retry.status = "running" THEN retry ELSE FreshRetry(label)

\* the loop body without the `return` after a successful call: the loop goes
\* on to the next attempt and the function returns when the range is used up
RetryStepNoReturn(r, answer) ==
    LET called == [r EXCEPT !.calls = @ + 1, !.outcomes = Append(@, answer # "fail")]
        last   == r.attempt = retry_attempts - 1
    IN  IF answer # "fail"
        THEN [called EXCEPT !.attempt = @ + 1,
                            !.status = IF last THEN "returned" ELSE "running"]
        ELSE IF last
        THEN [called EXCEPT !.warnings = @ + 1, !.errors = @ + 1,
                            !.status = "raised"]
        ELSE [called EXCEPT !.warnings = @ + 1,
                            !.sleeps = Append(@, 2 ^ r.attempt),
                            !.attempt = @ + 1]

\* the loop body with the last-attempt test off by one (`attempt ==
\* self.retry_attempts`): the last failure sleeps too, and the function
\* returns without raising when the range is used up
RetryStepNeverRaises(r, answer) ==
    LET called == [r EXCEPT !.calls = @ + 1, !.outcomes = Append(@, answer # "fail")]
    IN  IF answer = "ok" THEN [called EXCEPT !.status = "returned"]
        ELSE IF answer = "nodata"
        THEN [called EXCEPT !.data_errors = @ + 1, !.status = "returned"]
        ELSE [called EXCEPT !.warnings = @ + 1,
                            !.sleeps = Append(@, 2 ^ r.attempt),
                            !.attempt = @ + 1,
                            !.status = IF r.attempt = retry_attempts - 1
                                       THEN "returned" ELSE "running"]

\* One iteration of `for attempt in range(self.retry_attempts)`: the sink is
\* called and answers "ok", "nodata" (Supabase only: a response without
\* data) or "fail" (the call raises)
RetryStep(r, answer) ==
    LET called == [r EXCEPT !.calls = @ + 1, !.outcomes = Append(@, answer # "fail")]
    IN  IF answer = "ok" THEN [called EXCEPT !.status = "returned"]
        ELSE IF answer = "nodata"
        THEN [called EXCEPT !.data_errors = @ + 1, !.status = "returned"]
        ELSE IF r.attempt = retry_attempts - 1
        THEN [called EXCEPT !.warnings = @ + 1, !.errors = @ + 1,
                            !.status = "raised"]
        ELSE [called EXCEPT !.warnings = @ + 1,
                            !.sleeps = Append(@, 2 ^ r.attempt),
                            !.attempt = @ + 1]

----------------------------------------------------------------------------
\* ModernIndexer.index_batch, step by step

\* locals of a call that has not built anything yet
ClearLocals ==
    /\ img_embeddings' = <<>>
    /\ doc_points' = <<>>
    /\ img_points' = <<>>
    /\ supabase_rows' = <<>>
    /\ chunk' = 0
    /\ sent' = <<>>
    /\ retry' = NoRetry
    /\ attempted' = {}
    /\ exhausted' = {}

\* index_batch going on to the embeddings whatever the validation left
NothingValidIgnored(valid) == FALSE

\* `if not valid_docs:` after phase 1
NothingValid(valid) == valid = <<>>

\* index_batch up to the end of phase 1: the empty-batch return, validation
\* and deduplication, and the return when no document is valid
IndexBatchBegin(docs) ==
    /\ ipc = "idle"
    /\ documents' = docs
    /\ ndocs' = ndocs + Len(docs)
    /\ UNCHANGED <<min_content_length, batch_size, qdrant_docs, qdrant_images,
                   supabase_table, q_written, s_written>>
    /\ IF docs = <<>>
       THEN /\ stats' = NewStats(0)
            /\ result' = "returned"
            /\ ipc' = "idle"
            /\ ClearLocals
            /\ valid_docs' = <<>>
            /\ valid_images' = <<>>
            /\ UNCHANGED <<url_cache, content_hashes, vlog>>
       ELSE LET r == ProcessAndValidateBatch(docs, url_cache, content_hashes,
                                             min_content_length,
                                             NewStats(Len(docs)), vlog)
            IN  /\ url_cache' = r.url_cache
                /\ content_hashes' = r.content_hashes
                /\ vlog' = r.vlog
                /\ stats' = r.stats
                /\ ClearLocals
                /\ valid_docs' = r.valid_docs
                /\ valid_images' = r.all_images
                /\ IF NothingValid(r.valid_docs)
                   THEN ipc' = "idle" /\ result' = "returned"
                   ELSE ipc' = "embed" /\ result' = "running"

\* an exception leaves index_batch
Raise ==
    /\ ipc' = "idle"
    /\ result' = "raised"

\* index_batch returns stats
Return ==
    /\ ipc' = "idle"
    /\ result' = "returned"

\* the document encode call placed after the upsert of the document points:
\* its failure is raised when the points are already in the collection
GenerateEmbeddingsFailsLate ==
    /\ ipc = "embed"
    /\ Raise
    /\ qdrant_docs' = Upsert(qdrant_docs, DocPoints(valid_docs, 1))
    /\ UNCHANGED <<cacheVars, qdrant_images, supabase_table, q_written,
                   s_written, vlog, ndocs, documents, valid_docs, valid_images,
                   img_embeddings, doc_points, img_points, supabase_rows, chunk,
                   sent, stats, retry, attempted, exhausted>>

\* _generate_embeddings when the document encode call raises: re-raised
GenerateEmbeddingsFails ==
    /\ ipc = "embed"
    /\ Raise
    /\ UNCHANGED <<cacheVars, storeVars, documents, valid_docs, valid_images,
                   img_embeddings, doc_points, img_points, supabase_rows, chunk,
                   sent, stats, retry, attempted, exhausted>>

\* _generate_embeddings when the document encode call succeeds; the image
\* encode call, made only when some caption is non-empty, may raise, which
\* is logged and leaves img_embeddings empty
GenerateEmbeddings ==
    /\ ipc = "embed"
    /\ LET captions == ValidCaptions(valid_images, 1)
       IN  \E img_ok \in (IF captions = <<>> THEN {TRUE} ELSE BOOLEAN) :
              img_embeddings' =
                  IF img_ok THEN [i \in 1..Len(captions) |-> Encode(captions[i])]
                  ELSE <<>>
    /\ ipc' = "points"
    /\ UNCHANGED <<cacheVars, storeVars, documents, valid_docs, valid_images,
                   doc_points, img_points, supabase_rows, chunk, sent, stats,
                   result, retry, attempted, exhausted>>

\* _create_and_upsert_points up to the first upsert: the two loops that build
\* the points and rows
CreatePoints ==
    /\ ipc = "points"
    /\ doc_points' = DocPoints(valid_docs, 1)
    /\ supabase_rows' = SupabaseRows(valid_docs, 1)
    /\ img_points' = ImagePoints(valid_images, img_embeddings, 1)
    /\ stats' = [stats EXCEPT
                    !.failed_docs = @ + FailedPoints(valid_docs, 1),
                    !.successful_images = Len(img_points')]
    /\ ipc' = "qdrant_docs"
    /\ UNCHANGED <<cacheVars, storeVars, documents, valid_docs, valid_images,
                   img_embeddings, chunk, sent, result, retry, attempted,
                   exhausted>>

\* the values config.batch_size is given
BatchSizes == 1..MaxBatchSize

\* the ingest batch size run_consumer reads from the configuration
IngestBatchSizeOf(setting) == setting

\* the image chunk size ModernIndexer reads from the configuration
ImageChunkSizeOf(setting) == setting

Min(a, b) == IF a < b THEN a ELSE b

\* a call of a sink that returned: the sink and the ids it was given
Call(label, items) == [label |-> label, ids |-> Ids(items)]

\* the slice with one element less than the chunk size
ImageChunkShort(points, start, size) ==
    SubSeq(points, start + 1, Min(start + size - 1, Len(points)))

\* the slice img_points[i : i + self.batch_size]
ImageChunk(points, start, size) ==
    SubSeq(points, start + 1, Min(start + size, Len(points)))

\* the image upsert without the `if img_points:` test before it
AfterDocumentsAlwaysImages == "qdrant_images"

\* where _create_and_upsert_points goes after the document upsert
AfterDocuments == IF img_points = <<>> THEN "supabase" ELSE "qdrant_images"

\* _upsert_qdrant_with_retry(collection_name, doc_points, "documents"): the
\* early return without points, or one attempt
UpsertQdrantDocuments ==
    /\ ipc = "qdrant_docs"
    /\ UNCHANGED <<cacheVars, documents, valid_docs, valid_images,
                   img_embeddings, doc_points, img_points, supabase_rows, chunk,
                   stats, qdrant_images, supabase_table, s_written, vlog, ndocs>>
    /\ IF doc_points = <<>>
       THEN /\ ipc' = AfterDocuments
            /\ UNCHANGED <<result, retry, attempted, exhausted, qdrant_docs,
                           q_written, sent>>
       ELSE \E answer \in {"ok", "fail"} :
              LET r == RetryStep(CurrentRetry("documents"), answer)
              IN  /\ retry' = r
                  /\ attempted' = attempted \cup {"qdrant"}
                  /\ IF r.status = "returned"
                     THEN /\ qdrant_docs' = Upsert(qdrant_docs, doc_points)
                          /\ q_written' = q_written \o Ids(doc_points)
                          /\ sent' = Append(sent, Call("documents", doc_points))
                          /\ ipc' = AfterDocuments
                          /\ UNCHANGED <<result, exhausted>>
                     ELSE IF r.status = "raised"
                     THEN /\ Raise
                          /\ exhausted' = exhausted \cup {"qdrant"}
                          /\ UNCHANGED <<qdrant_docs, q_written, sent>>
                     ELSE UNCHANGED <<ipc, result, exhausted, qdrant_docs,
                                      q_written, sent>>

\* the image loop left after its first chunk
AfterImagesNoLoop(next) == "supabase"

\* where _create_and_upsert_points goes after a chunk: to the chunk that
\* starts at `next`, or past the loop
AfterImages(next) ==
    IF next >= Len(img_points) THEN "supabase" ELSE "qdrant_images"

\* one attempt of _upsert_qdrant_with_retry(collection_name_images, batch,
\* "images") for the chunk img_points[chunk : chunk + batch_size] of the loop
\* `for i in range(0, len(img_points), self.batch_size)`
UpsertQdrantImages ==
    /\ ipc = "qdrant_images"
    /\ UNCHANGED <<cacheVars, documents, valid_docs, valid_images,
                   img_embeddings, doc_points, img_points, supabase_rows,
                   stats, qdrant_docs, supabase_table, q_written, s_written,
                   vlog, ndocs>>
    /\ \E answer \in {"ok", "fail"} :
         LET r     == RetryStep(CurrentRetry("images"), answer)
             items == ImageChunk(img_points, chunk, batch_size)
         IN  /\ retry' = r
             /\ attempted' = attempted \cup {"qdrant_images"}
             /\ IF r.status = "returned"
                THEN /\ qdrant_images' = Upsert(qdrant_images, items)
                     /\ sent' = Append(sent, Call("images", items))
                     /\ chunk' = chunk + batch_size
                     /\ ipc' = AfterImages(chunk')
                     /\ UNCHANGED <<result, exhausted>>
                ELSE IF r.status = "raised"
                THEN /\ Raise
                     /\ exhausted' = exhausted \cup {"qdrant_images"}
                     /\ UNCHANGED <<qdrant_images, chunk, sent>>
                ELSE UNCHANGED <<ipc, result, exhausted, qdrant_images, chunk,
                                 sent>>

\* _upsert_supabase_with_retry(supabase_rows): the early return without rows,
\* or one attempt; when it returns, index_batch returns the stats
UpsertSupabase ==
    /\ ipc = "supabase"
    /\ UNCHANGED <<cacheVars, documents, valid_docs, valid_images,
                   img_embeddings, doc_points, img_points, supabase_rows, chunk,
                   stats, qdrant_docs, qdrant_images, q_written, vlog, ndocs>>
    /\ IF supabase_rows = <<>>
       THEN /\ Return
            /\ UNCHANGED <<retry, attempted, exhausted, supabase_table,
                           s_written, sent>>
       ELSE \E answer \in {"ok", "nodata", "fail"} :
              LET r == RetryStep(CurrentRetry("rows"), answer)
              IN  /\ retry' = r
                  /\ attempted' = attempted \cup {"supabase"}
                  /\ IF r.status = "returned"
                     THEN /\ IF answer = "ok"
                             THEN /\ supabase_table' = Upsert(supabase_table, supabase_rows)
                                  /\ s_written' = s_written \o Ids(supabase_rows)
                             ELSE UNCHANGED <<supabase_table, s_written>>
                          /\ sent' = Append(sent, Call("rows", supabase_rows))
                          /\ Return
                          /\ UNCHANGED exhausted
                     ELSE IF r.status = "raised"
                     THEN /\ Raise
                          /\ exhausted' = exhausted \cup {"supabase"}
                          /\ UNCHANGED <<supabase_table, s_written, sent>>
                     ELSE UNCHANGED <<ipc, result, exhausted, supabase_table,
                                      s_written, sent>>

\* cleanup_cache; the histories kept per cache lifetime start afresh
\* cleanup_cache clearing the URL set only
CleanupCacheUrlsOnly ==
    /\ ipc = "idle"
    /\ vlog # <<>>
    /\ url_cache' = {}
    /\ vlog' = <<>>
    /\ q_written' = <<>>
    /\ s_written' = <<>>
    /\ UNCHANGED <<content_hashes, min_content_length, batch_size, batchVars,
                   qdrant_docs, qdrant_images, supabase_table, ndocs>>

\* cleanup_cache: both sets are cleared
CleanupCache ==
    /\ ipc = "idle"
    /\ vlog # <<>>
    /\ url_cache' = {}
    /\ content_hashes' = {}
    /\ vlog' = <<>>
    /\ q_written' = <<>>
    /\ s_written' = <<>>
    /\ UNCHANGED <<min_content_length, batch_size, batchVars, qdrant_docs,
                   qdrant_images, supabase_table, ndocs>>

----------------------------------------------------------------------------
\* ModernIndexer.build_embedding_text and _smart_truncate

\* self.max_embedding_length: getattr(config, "max_embedding_length", 8192);
\* IndexerConfig has no such field, so the default is what runs
max_embedding_length == 8192
\* `if len(content) > 4000`
LongContent == 4000
\* `content[:2000]`
HeadLen == 2000
\* `content[-1000:]`
TailLen == 1000
\* the separator " ... "
Ellipsis == <<" ", ".", ".", ".", " ">>

\* s[:n]
Prefix(s, n) == IF Len(s) <= n THEN s ELSE SubSeq(s, 1, n)
\* s[-n:]
Suffix(s, n) == IF Len(s) <= n THEN s ELSE SubSeq(s, Len(s) - n + 1, Len(s))

MaxOf(S) == CHOOSE x \in S : \A y \in S : y <= x

\* s.rfind(". ") and s.rfind(c): 0-based index of the last match, -1 if none
RFindSentence(s) ==
    MaxOf({-1} \cup {i \in 0..(Len(s) - 2) : s[i + 1] = "." /\ s[i + 2] = " "})
RFind(s, c) == MaxOf({-1} \cup {i \in 0..(Len(s) - 1) : s[i + 1] = c})

\* the dict handed to build_embedding_text; it carries no "headings",
\* "content_type" or "language" key
EmbedDoc(url, title, description, text) ==
    [url |-> url, title |-> title, description |-> description,
     cleaned_text |-> text]

\* section 1: the stripped title, twice
TitlePieces(doc) ==
    IF Truthy(doc.title) THEN <<Strip(doc.title), Strip(doc.title)>> ELSE <<>>

\* section 2: the stripped description unless it repeats the title (the
\* title is the stripped one only if it was truthy)
DescriptionPieces(doc) ==
    LET title       == IF Truthy(doc.title) THEN Strip(doc.title) ELSE doc.title
        description == IF Truthy(doc.description) THEN Strip(doc.description)
                       ELSE <<>>
    IN  IF description # <<>> /\ description # title THEN <<description>>
        ELSE <<>>

\* the length test of section 4 with `>=` in place of `>`
LongContentPieceAtThreshold(content) ==
    IF Len(content) >= LongContent
    THEN Prefix(content, HeadLen) \o Ellipsis \o Suffix(content, TailLen)
    ELSE content

\* section 4 after the strip: content[:2000] + " ... " + content[-1000:]
\* when len(content) > 4000
LongContentPiece(content) ==
    IF Len(content) > LongContent
    THEN Prefix(content, HeadLen) \o Ellipsis \o Suffix(content, TailLen)
    ELSE content

\* section 4: the body is stripped first, then measured and cut
ContentPieces(doc) ==
    IF Truthy(doc.cleaned_text)
    THEN << LongContentPiece(Strip(doc.cleaned_text)) >>
    ELSE <<>>

\* _extract_url_keywords for a URL that is one run of lower-case letters,
\* shorter than 8 (no scheme, "/", "?", ".", "-", "_" or digit): the path is
\* the URL itself, its only part is kept when longer than one character
ExtractUrlKeywords(url) == IF Len(url) > 1 THEN url ELSE <<>>

\* _extract_domain_context: urlparse gives a URL without "//" an empty
\* netloc, and "".split(".") has fewer than two parts
ExtractDomainContext(url) == <<>>

\* section 5 (section 6 adds nothing for these dicts: their netloc is empty)
UrlPieces(doc) ==
    IF Truthy(doc.url)
    THEN LET url            == Strip(doc.url)
             url_keywords   == ExtractUrlKeywords(url)
             domain_context == ExtractDomainContext(url)
         IN  (IF url_keywords # <<>> THEN <<url_keywords>> ELSE <<>>)
             \o (IF domain_context # <<>> THEN <<domain_context>> ELSE <<>>)
    ELSE <<>>

\* " ".join(filter(None, ps))
RECURSIVE Join(_)
Join(ps) ==
    IF ps = <<>> THEN <<>>
    ELSE LET rest == Join(Tail(ps))
         IN  IF Head(ps) = <<>> THEN rest
             ELSE IF rest = <<>> THEN Head(ps)
             ELSE Head(ps) \o <<" ">> \o rest

\* _smart_truncate without the word-boundary fallback: the cut prefix is
\* returned as it is
SmartTruncateNoFallback(text, max_length) ==
    IF Len(text) <= max_length THEN text
    ELSE LET truncated     == SubSeq(text, 1, max_length)
             last_sentence == RFindSentence(truncated)
             last_newline  == RFind(truncated, "\n")
             boundary      == IF last_sentence > last_newline
                              THEN last_sentence ELSE last_newline
         IN  IF boundary * 10 > max_length * 8
             THEN SubSeq(truncated, 1, boundary + 1)
             ELSE truncated

\* _smart_truncate: cut after the last ". " or "\n" of text[:max_length] if
\* that lies beyond 0.8 * max_length (the strip of that branch is discarded),
\* else truncated.rsplit(" ", 1)[0].strip()
SmartTruncate(text, max_length) ==
    IF Len(text) <= max_length THEN text
    ELSE LET truncated     == SubSeq(text, 1, max_length)
             last_sentence == RFindSentence(truncated)
             last_newline  == RFind(truncated, "\n")
             boundary      == IF last_sentence > last_newline
                              THEN last_sentence ELSE last_newline
             last_space    == RFind(truncated, " ")
         IN  IF boundary * 10 > max_length * 8
             THEN SubSeq(truncated, 1, boundary + 1)
             ELSE Strip(IF last_space >= 0
                        THEN SubSeq(truncated, 1, last_space)
                        ELSE truncated)

\* no call of build_embedding_text has returned yet
NoPieces == [title |-> <<>>, description |-> <<>>, content |-> <<>>,
             url |-> <<>>]

\* build_embedding_text(doc), from `pieces = []` to the return
BuildEmbeddingText ==
    /\ embedding_text = None
    /\ LET ps   == [title       |-> TitlePieces(embed_doc),
                    description |-> DescriptionPieces(embed_doc),
                    content     |-> ContentPieces(embed_doc),
                    url         |-> UrlPieces(embed_doc)]
           text == Strip(Join(ps.title \o ps.description \o ps.content
                              \o ps.url))
       IN  /\ pieces' = ps
           /\ joined' = text
           /\ embedding_text' =
                  IF Len(text) > max_embedding_length
                  THEN SmartTruncate(text, max_embedding_length)
                  ELSE text
    /\ UNCHANGED <<cacheVars, batchVars, storeVars, consumerVars, monitorVars,
                   mainVars, embed_doc>>

\* no call of build_embedding_text is followed
TextOff ==
    /\ embed_doc = EmbedDoc(<<>>, <<>>, <<>>, <<>>)
    /\ pieces = NoPieces
    /\ joined = <<>>
    /\ embedding_text = <<>>

\* main() is not followed
MainOff ==
    /\ main_pc = "off"
    /\ exit_code = 0
    /\ failed_dep = "none"

----------------------------------------------------------------------------
\* monitor.py: the /health handler

\* ModernIndexer.count: the number of vectors of the main collection (one per
\* point), or -1 when get_collection raises
count(answer) == IF answer = "ok" THEN Cardinality(qdrant_docs) ELSE -1

\* what a store does when probed: it answers, it raises, or it does not
\* answer within the 5 seconds of asyncio.wait_for
ProbeOutcomes == {"ok", "error", "timeout"}

\* f"error: {e}": the text of a TimeoutError is empty
ErrorStatus(outcome) == IF outcome = "timeout" THEN "error: " ELSE "error: e"

\* run_consumer called with index_batch and poll run inline, not through
\* asyncio.to_thread: the coroutine keeps the event loop while they run
OnEventLoopInline(pos) == pos \in {"drain", "flush", "final_flush"}

\* The positions at which the coroutine of run_consumer is running on the
\* event loop thread. At "loop" it is suspended in `await
\* asyncio.to_thread(consumer.poll, 0)` or `await asyncio.sleep(0.05)`, at
\* "flush" and "final_flush" in `await asyncio.to_thread(indexer.index_batch,
\* batch)`; only between the end of the while loop and what follows it does
\* it hold the thread.
OnEventLoop(pos) == pos = "drain"

\* the aiohttp site is up and the event loop can run a handler
Serving == mstate = "serving" /\ ~OnEventLoop(cstate)

\* the handler of GET /health, from the Qdrant check to the JSON response
Health ==
    /\ Serving
    /\ \E q \in ProbeOutcomes, sb \in ProbeOutcomes :
         LET vectors_count   == IF q = "timeout" THEN None ELSE count(q)
             qdrant_status   == IF q = "timeout" THEN ErrorStatus(q) ELSE "ok"
             supabase_status == IF sb = "ok" THEN "ok" ELSE ErrorStatus(sb)
             kafka_status    == IF Truthy(kafka_brokers) THEN "configured"
                                ELSE "not configured"
             status          == IF qdrant_status = "ok" /\ supabase_status = "ok"
                                THEN "ok" ELSE "degraded"
         IN  /\ CURRENT_VECTORS' = IF q = "timeout" THEN CURRENT_VECTORS
                                   ELSE vectors_count
             /\ health_response' =
                    [status |-> status,
                     components |-> [qdrant |-> qdrant_status,
                                     supabase |-> supabase_status,
                                     kafka |-> kafka_status],
                     current_vectors |-> vectors_count]
             /\ probe' = [qdrant |-> q, supabase |-> sb]
    /\ UNCHANGED <<cacheVars, batchVars, storeVars, consumerVars, kafka_brokers,
                   mstate, textVars, mainVars>>

\* the handler of GET /ready: always {"status": "ready"}
Readiness ==
    /\ Serving
    /\ UNCHANGED vars

\* the handler of GET /metrics: renders the registry, changes nothing
Metrics ==
    /\ Serving
    /\ UNCHANGED vars

\* one iteration of monitor_loop after its sleep: the latency and uptime
\* gauges are set to clock readings, which the model does not carry
MonitorLoop ==
    /\ Serving
    /\ UNCHANGED vars

\* no /health request has been answered yet
NoResponse ==
    [status |-> "none",
     components |-> [qdrant |-> "unknown", supabase |-> "unknown",
                     kafka |-> "unknown"],
     current_vectors |-> None]

\* the monitor before its first probe, with the broker list configured
MonitorOff ==
    /\ kafka_brokers = <<"k">>
    /\ CURRENT_VECTORS = 0
    /\ health_response = NoResponse
    /\ probe = [qdrant |-> "none", supabase |-> "none"]
    /\ mstate = "serving"

----------------------------------------------------------------------------
\* The indexer driven directly: index_batch called with arbitrary batches

BatchesOf(n) == [1..n -> Records]

CallIndexBatch ==
    /\ cstate = "off"
    /\ \E n \in 0..MaxBatchLen :
         /\ ndocs + n <= MaxDocs
         /\ \E docs \in BatchesOf(n) : IndexBatchBegin(docs)
    /\ UNCHANGED <<consumerVars, monitorVars, textVars, mainVars>>

IndexerInit ==
    /\ url_cache = {}
    /\ content_hashes = {}
    /\ min_content_length \in {0, 2}
    /\ batch_size \in BatchSizes
    /\ ipc = "idle"
    /\ documents = <<>>
    /\ valid_docs = <<>>
    /\ valid_images = <<>>
    /\ img_embeddings = <<>>
    /\ doc_points = <<>>
    /\ img_points = <<>>
    /\ supabase_rows = <<>>
    /\ chunk = 0
    /\ sent = <<>>
    /\ stats = NewStats(0)
    /\ result = "none"
    /\ retry = NoRetry
    /\ attempted = {}
    /\ exhausted = {}
    /\ qdrant_docs = {}
    /\ qdrant_images = {}
    /\ supabase_table = {}
    /\ q_written = <<>>
    /\ s_written = <<>>
    /\ vlog = <<>>
    /\ ndocs = 0

ConsumerOff ==
    /\ cstate = "off"
    /\ stop_event = FALSE
    /\ batch = <<>>
    /\ total_consumed = 0
    /\ max_docs = 0
    /\ offset = 0
    /\ MESSAGES_CONSUMED = 0
    /\ MESSAGES_FAILED = 0
    /\ BATCHES_INDEXED = 0
    /\ flushes = <<>>
    /\ last_poll = "nothing yet"
    /\ closed = 0

Init == IndexerInit /\ ConsumerOff /\ MonitorOff /\ TextOff /\ MainOff

GenerateEmbeddingsFailsStep == GenerateEmbeddingsFails /\ UNCHANGED <<consumerVars, monitorVars, textVars, mainVars>>
GenerateEmbeddingsStep      == GenerateEmbeddings /\ UNCHANGED <<consumerVars, monitorVars, textVars, mainVars>>
CreatePointsStep            == CreatePoints /\ UNCHANGED <<consumerVars, monitorVars, textVars, mainVars>>
UpsertQdrantDocumentsStep   == UpsertQdrantDocuments /\ UNCHANGED <<consumerVars, monitorVars, textVars, mainVars>>
UpsertQdrantImagesStep      == UpsertQdrantImages /\ UNCHANGED <<consumerVars, monitorVars, textVars, mainVars>>
UpsertSupabaseStep          == UpsertSupabase /\ UNCHANGED <<consumerVars, monitorVars, textVars, mainVars>>
CleanupCacheStep            == CleanupCache /\ UNCHANGED <<consumerVars, monitorVars, textVars, mainVars>>

\* the steps of a running index_batch
IndexerStep ==
    \/ GenerateEmbeddingsFailsStep
    \/ GenerateEmbeddingsStep
    \/ CreatePointsStep
    \/ UpsertQdrantDocumentsStep
    \/ UpsertQdrantImagesStep
    \/ UpsertSupabaseStep

Next ==
    \/ CallIndexBatch
    \/ IndexerStep
    \/ CleanupCacheStep

Spec == Init /\ [][Next]_vars

\* the pages whose batches show the sink calls: a page without images, the
\* two pages with images, and the page whose point cannot be built
SinkRecords == {PageA1, PageImgs, PageImgsMixed, PageNull}

\* index_batch called with a non-empty batch of these pages
CallSinkBatch ==
    /\ cstate = "off"
    /\ \E n \in 1..MaxBatchLen :
         /\ ndocs + n <= MaxDocs
         /\ \E docs \in [1..n -> SinkRecords] : IndexBatchBegin(docs)
    /\ UNCHANGED <<consumerVars, monitorVars, textVars, mainVars>>

SinkNext ==
    \/ CallSinkBatch
    \/ IndexerStep

SinkSpec == Init /\ [][SinkNext]_vars

----------------------------------------------------------------------------
\* consumer.py: run_consumer and _process_batch

\* the records the broker delivers in the consumer runs
ConsumerRecords == {PageA1, PageB1, PageImgs}

\* the pending batch handed over last record first
DocsOfReversed(b) == [i \in 1..Len(b) |-> b[Len(b) + 1 - i].doc]

\* the dicts of the pending batch, as index_batch receives them
DocsOf(b) == [i \in 1..Len(b) |-> b[i].doc]
OffsetsOf(b) == [i \in 1..Len(b) |-> b[i].offset]

\* the max_docs test with `>` in place of `>=`
ReachedMaxDocsStrict(consumed) == max_docs # 0 /\ consumed > max_docs

\* `if max_docs and total_consumed >= max_docs: break`
ReachedMaxDocs(consumed) == max_docs # 0 /\ consumed >= max_docs

\* _process_batch up to its await: index_batch starts in a worker thread
ProcessBatchBegin(b, kind) ==
    /\ IndexBatchBegin(DocsOf(b))
    /\ flushes' = Append(flushes, [kind |-> kind, offsets |-> OffsetsOf(b)])

\* index_batch started in the background and not awaited
AwaitedAtOnce == TRUE

\* `await asyncio.to_thread(indexer.index_batch, batch)` is over: the worker
\* thread has left index_batch
Awaited == ipc = "idle"

\* _process_batch without its try/except accounting: the batch counts as
\* indexed however index_batch ended
ProcessBatchEndAlwaysIndexed ==
    /\ ipc = "idle"
    /\ BATCHES_INDEXED' = BATCHES_INDEXED + 1
    /\ UNCHANGED MESSAGES_FAILED

\* _process_batch after its await: BATCHES_INDEXED.inc() when index_batch
\* returned, MESSAGES_FAILED.inc() when it raised (the exception is caught)
ProcessBatchEnd ==
    /\ Awaited
    /\ IF result = "returned"
       THEN BATCHES_INDEXED' = BATCHES_INDEXED + 1 /\ UNCHANGED MESSAGES_FAILED
       ELSE MESSAGES_FAILED' = MESSAGES_FAILED + 1 /\ UNCHANGED BATCHES_INDEXED

\* the poll without the `while not stop_event.is_set()` test before it
PollNoneIgnoresStop ==
    /\ UNCHANGED <<monitorVars, textVars, mainVars>>
    /\ cstate = "loop"
    /\ last_poll' = "none"
    /\ UNCHANGED <<cacheVars, batchVars, storeVars, cstate, stop_event, batch,
                   total_consumed, max_docs, offset, MESSAGES_CONSUMED,
                   MESSAGES_FAILED, BATCHES_INDEXED, flushes, closed>>

\* consumer.poll returned None: sleep 0.05 and poll again
PollNone ==
    /\ UNCHANGED <<monitorVars, textVars, mainVars>>
    /\ cstate = "loop" /\ ~stop_event
    /\ last_poll' = "none"
    /\ UNCHANGED <<cacheVars, batchVars, storeVars, cstate, stop_event, batch,
                   total_consumed, max_docs, offset, MESSAGES_CONSUMED,
                   MESSAGES_FAILED, BATCHES_INDEXED, flushes, closed>>

\* a message with msg.error() handled by leaving the loop: the consumer is
\* closed
PollErrorBreaks ==
    /\ UNCHANGED <<monitorVars, textVars, mainVars>>
    /\ cstate = "loop" /\ ~stop_event
    /\ \E e \in {"partition_eof", "error"} : last_poll' = e
    /\ cstate' = "closed"
    /\ closed' = closed + 1
    /\ UNCHANGED <<cacheVars, batchVars, storeVars, stop_event, batch,
                   total_consumed, max_docs, offset, MESSAGES_CONSUMED,
                   MESSAGES_FAILED, BATCHES_INDEXED, flushes>>

\* consumer.poll returned a message with msg.error(): end of partition, or
\* another error, which is logged; poll again
PollError ==
    /\ UNCHANGED <<monitorVars, textVars, mainVars>>
    /\ cstate = "loop" /\ ~stop_event
    /\ \E e \in {"partition_eof", "error"} : last_poll' = e
    /\ UNCHANGED <<cacheVars, batchVars, storeVars, cstate, stop_event, batch,
                   total_consumed, max_docs, offset, MESSAGES_CONSUMED,
                   MESSAGES_FAILED, BATCHES_INDEXED, flushes, closed>>

\* the undecodable message handled without the inner try: the exception
\* reaches the outer `except Exception` and ends the loop
PollUndecodableBreaks ==
    /\ UNCHANGED <<monitorVars, textVars, mainVars>>
    /\ cstate = "loop" /\ ~stop_event
    /\ offset < MaxMessages
    /\ offset' = offset + 1
    /\ last_poll' = "undecodable"
    /\ cstate' = "closed"
    /\ closed' = closed + 1
    /\ UNCHANGED <<cacheVars, batchVars, storeVars, stop_event, batch,
                   total_consumed, max_docs, MESSAGES_CONSUMED, MESSAGES_FAILED,
                   BATCHES_INDEXED, flushes>>

\* consumer.poll returned a message whose payload is not UTF-8 JSON: decode
\* or json.loads raises inside the try, the except counts and logs it
PollUndecodable ==
    /\ UNCHANGED <<monitorVars, textVars, mainVars>>
    /\ cstate = "loop" /\ ~stop_event
    /\ offset < MaxMessages
    /\ offset' = offset + 1
    /\ last_poll' = "undecodable"
    /\ MESSAGES_FAILED' = MESSAGES_FAILED + 1
    /\ UNCHANGED <<cacheVars, batchVars, storeVars, cstate, stop_event, batch,
                   total_consumed, max_docs, MESSAGES_CONSUMED, BATCHES_INDEXED,
                   flushes, closed>>

\* the flush test with `>` in place of `>=`
BatchIsFullStrict(b) == Len(b) > batch_size

\* `len(batch) >= batch_size`
BatchIsFull(b) == Len(b) >= batch_size

\* consumer.poll returned a decodable message: it is appended and counted;
\* a full batch is handed to _process_batch, otherwise the max_docs test
\* decides between polling again and leaving the loop
PollMessage ==
    /\ UNCHANGED <<monitorVars, textVars, mainVars>>
    /\ cstate = "loop" /\ ~stop_event
    /\ offset < MaxMessages
    /\ offset' = offset + 1
    /\ last_poll' = "message"
    /\ MESSAGES_CONSUMED' = MESSAGES_CONSUMED + 1
    /\ total_consumed' = total_consumed + 1
    /\ UNCHANGED <<stop_event, max_docs, MESSAGES_FAILED, BATCHES_INDEXED, closed>>
    /\ \E rec \in ConsumerRecords :
         /\ batch' = Append(batch, [offset |-> offset', doc |-> rec])
         /\ IF BatchIsFull(batch')
            THEN /\ ProcessBatchBegin(batch', "count")
                 /\ cstate' = "flush"
            ELSE /\ cstate' = IF ReachedMaxDocs(total_consumed') THEN "drain"
                              ELSE "loop"
                 /\ UNCHANGED <<cacheVars, batchVars, storeVars, flushes>>

\* consumer.poll raises (KafkaException): caught after the loop by
\* `except KafkaException`, so the final flush is skipped; finally closes
PollRaises ==
    /\ UNCHANGED <<monitorVars, textVars, mainVars>>
    /\ cstate = "loop" /\ ~stop_event
    /\ last_poll' = "raised"
    /\ cstate' = "closed"
    /\ closed' = closed + 1
    /\ UNCHANGED <<cacheVars, batchVars, storeVars, stop_event, batch,
                   total_consumed, max_docs, offset, MESSAGES_CONSUMED,
                   MESSAGES_FAILED, BATCHES_INDEXED, flushes>>

\* the count-triggered flush finished, without the batch.clear()
FlushDoneKeepsBatch ==
    /\ UNCHANGED <<monitorVars, textVars, mainVars>>
    /\ cstate = "flush"
    /\ ProcessBatchEnd
    /\ cstate' = IF ReachedMaxDocs(total_consumed) THEN "drain" ELSE "loop"
    /\ UNCHANGED <<cacheVars, batchVars, storeVars, stop_event, batch,
                   total_consumed, max_docs, offset, MESSAGES_CONSUMED, flushes,
                   last_poll, closed>>

\* the count-triggered flush finished: _process_batch returns, batch.clear(),
\* then the max_docs test
FlushDone ==
    /\ UNCHANGED <<monitorVars, textVars, mainVars>>
    /\ cstate = "flush"
    /\ ProcessBatchEnd
    /\ batch' = <<>>
    /\ cstate' = IF ReachedMaxDocs(total_consumed) THEN "drain" ELSE "loop"
    /\ UNCHANGED <<cacheVars, batchVars, storeVars, stop_event, total_consumed,
                   max_docs, offset, MESSAGES_CONSUMED, flushes, last_poll, closed>>

\* `while not stop_event.is_set()` finds the event set
ExitLoop ==
    /\ UNCHANGED <<monitorVars, textVars, mainVars>>
    /\ cstate = "loop" /\ stop_event
    /\ cstate' = "drain"
    /\ UNCHANGED <<cacheVars, batchVars, storeVars, stop_event, batch,
                   total_consumed, max_docs, offset, MESSAGES_CONSUMED,
                   MESSAGES_FAILED, BATCHES_INDEXED, flushes, last_poll,
                   closed>>

\* after the loop: `if batch: await _process_batch(indexer, batch)`
FinalFlush ==
    /\ UNCHANGED <<monitorVars, textVars, mainVars>>
    /\ cstate = "drain"
    /\ batch # <<>>
    /\ ProcessBatchBegin(batch, "final")
    /\ cstate' = "final_flush"
    /\ UNCHANGED <<stop_event, batch, total_consumed, max_docs, offset,
                   MESSAGES_CONSUMED, MESSAGES_FAILED, BATCHES_INDEXED,
                   last_poll, closed>>

\* after the loop with nothing pending: finally closes the consumer
CloseWithoutFlush ==
    /\ UNCHANGED <<monitorVars, textVars, mainVars>>
    /\ cstate = "drain"
    /\ batch = <<>>
    /\ cstate' = "closed"
    /\ closed' = closed + 1
    /\ UNCHANGED <<cacheVars, batchVars, storeVars, stop_event, batch,
                   total_consumed, max_docs, offset, MESSAGES_CONSUMED,
                   MESSAGES_FAILED, BATCHES_INDEXED, flushes, last_poll>>

\* a final flush that is given up when the stop event is set: the consumer
\* is closed while index_batch runs
FinalFlushAbandoned ==
    /\ UNCHANGED <<monitorVars, textVars, mainVars>>
    /\ cstate = "final_flush"
    /\ IF stop_event THEN UNCHANGED <<MESSAGES_FAILED, BATCHES_INDEXED>>
       ELSE ProcessBatchEnd
    /\ cstate' = "closed"
    /\ closed' = closed + 1
    /\ UNCHANGED <<cacheVars, batchVars, storeVars, stop_event, batch,
                   total_consumed, max_docs, offset, MESSAGES_CONSUMED, flushes, last_poll>>

\* the final flush finished: _process_batch returns, finally closes
FinalFlushDone ==
    /\ UNCHANGED <<monitorVars, textVars, mainVars>>
    /\ cstate = "final_flush"
    /\ ProcessBatchEnd
    /\ cstate' = "closed"
    /\ closed' = closed + 1
    /\ UNCHANGED <<cacheVars, batchVars, storeVars, stop_event, batch,
                   total_consumed, max_docs, offset, MESSAGES_CONSUMED, flushes, last_poll>>

\* the cancellation without the `finally`: the consumer is never closed
CancelSkipsClose ==
    /\ UNCHANGED <<monitorVars, textVars, mainVars>>
    /\ cstate \in {"loop", "flush", "final_flush"}
    /\ cstate' = "closed"
    /\ UNCHANGED <<cacheVars, batchVars, storeVars, stop_event, batch,
                   total_consumed, max_docs, offset, MESSAGES_CONSUMED,
                   MESSAGES_FAILED, BATCHES_INDEXED, flushes, last_poll,
                   closed>>

\* the task is cancelled while suspended in an await (poll, sleep or
\* _process_batch): CancelledError is no Exception, so only finally runs;
\* a worker thread running index_batch is not interrupted
Cancel ==
    /\ UNCHANGED <<monitorVars, textVars, mainVars>>
    /\ cstate \in {"loop", "flush", "final_flush"}
    /\ cstate' = "closed"
    /\ closed' = closed + 1
    /\ UNCHANGED <<cacheVars, batchVars, storeVars, stop_event, batch,
                   total_consumed, max_docs, offset, MESSAGES_CONSUMED,
                   MESSAGES_FAILED, BATCHES_INDEXED, flushes, last_poll>>

\* main.py: _signal_handler on SIGINT / SIGTERM
SignalStop ==
    /\ UNCHANGED <<monitorVars, textVars, mainVars>>
    /\ cstate \notin {"off", "closed"}
    /\ ~stop_event
    /\ stop_event' = TRUE
    /\ UNCHANGED <<cacheVars, batchVars, storeVars, cstate, batch,
                   total_consumed, max_docs, offset, MESSAGES_CONSUMED,
                   MESSAGES_FAILED, BATCHES_INDEXED, flushes, last_poll,
                   closed>>

\* run_consumer after Consumer(...) and subscribe, about to enter the loop
ConsumerInit ==
    /\ IndexerInit
    /\ min_content_length = 0
    /\ cstate = "loop"
    /\ stop_event = FALSE
    /\ batch = <<>>
    /\ total_consumed = 0
    /\ max_docs \in {0, 1, 2}
    /\ offset = 0
    /\ MESSAGES_CONSUMED = 0
    /\ MESSAGES_FAILED = 0
    /\ BATCHES_INDEXED = 0
    /\ flushes = <<>>
    /\ last_poll = "nothing yet"
    /\ closed = 0
    /\ MonitorOff
    /\ TextOff
    /\ MainOff

\* the steps run_consumer takes by itself
ConsumerStep ==
    \/ PollNone
    \/ PollError
    \/ PollUndecodable
    \/ PollMessage
    \/ PollRaises
    \/ FlushDone
    \/ ExitLoop
    \/ FinalFlush
    \/ CloseWithoutFlush
    \/ FinalFlushDone

ConsumerNext ==
    \/ ConsumerStep
    \/ IndexerStep
    \/ SignalStop
    \/ Cancel

ConsumerSpec == ConsumerInit /\ [][ConsumerNext]_vars

\* The event loop keeps scheduling the consumer task, and the worker thread
\* running index_batch keeps running; signals and cancellation are up to the
\* environment
FairConsumerSpec ==
    /\ ConsumerSpec
    /\ WF_vars(ConsumerStep)
    /\ WF_vars(IndexerStep)

----------------------------------------------------------------------------
\* The service of main.py: the monitor server answering /health probes next
\* to the consumer task

\* the monitor of a service whose broker list may be left empty
MonitorInit ==
    /\ ConsumerOff
    /\ IndexerInit
    /\ CURRENT_VECTORS = 0
    /\ health_response = NoResponse
    /\ probe = [qdrant |-> "none", supabase |-> "none"]
    /\ kafka_brokers \in {<<>>, <<"k">>}
    /\ mstate = "serving"
    /\ TextOff
    /\ MainOff

\* index_batch called with a batch of one page
IndexOnePage ==
    /\ cstate = "off"
    /\ ndocs < MaxDocs
    /\ \E rec \in ConsumerRecords : IndexBatchBegin(<<rec>>)
    /\ UNCHANGED <<consumerVars, monitorVars, textVars, mainVars>>

MonitorNext ==
    \/ Health
    \/ IndexOnePage
    \/ IndexerStep

MonitorSpec == MonitorInit /\ [][MonitorNext]_vars

----------------------------------------------------------------------------
\* main.py: start-up, the consumer and monitor tasks, and the exit code

\* what ModernIndexer.__init__ initialises, in this order
Dependencies == {"model", "qdrant", "supabase"}

\* an initialiser whose exception is logged and not raised again: main_async
\* goes on to create the two tasks
ConstructIndexerFailsSwallowed ==
    /\ main_pc = "constructing"
    /\ \E dep \in Dependencies : failed_dep' = dep
    /\ main_pc' = "waiting"
    /\ cstate' = "created"
    /\ mstate' = "created"
    /\ UNCHANGED <<cacheVars, batchVars, storeVars, textVars, exit_code,
                   stop_event, batch, total_consumed, max_docs, offset,
                   MESSAGES_CONSUMED, MESSAGES_FAILED, BATCHES_INDEXED, flushes,
                   last_poll, closed, kafka_brokers, CURRENT_VECTORS,
                   health_response, probe>>

\* ModernIndexer(config) raises: _initialize_model, _initialize_qdrant or
\* _initialize_supabase logs and re-raises, main_async has no handler, and
\* main() returns 1 from its `except Exception`; no task was created
ConstructIndexerFails ==
    /\ main_pc = "constructing"
    /\ \E dep \in Dependencies : failed_dep' = dep
    /\ main_pc' = "exited"
    /\ exit_code' = 1
    /\ UNCHANGED <<cacheVars, batchVars, storeVars, consumerVars, monitorVars,
                   textVars>>

\* ModernIndexer(config) returns: the stop event, the signal handlers and
\* the two tasks are created, main_async awaits asyncio.wait
ConstructIndexer ==
    /\ main_pc = "constructing"
    /\ main_pc' = "waiting"
    /\ cstate' = "created"
    /\ mstate' = "created"
    /\ UNCHANGED <<cacheVars, batchVars, storeVars, textVars, exit_code,
                   failed_dep, stop_event, batch, total_consumed, max_docs,
                   offset, MESSAGES_CONSUMED, MESSAGES_FAILED, BATCHES_INDEXED,
                   flushes, last_poll, closed, kafka_brokers, CURRENT_VECTORS,
                   health_response, probe>>

\* run_consumer up to its loop: Consumer(consumer_conf) and subscribe
CreateConsumer ==
    /\ cstate = "created"
    /\ cstate' = "loop"
    /\ UNCHANGED <<cacheVars, batchVars, storeVars, monitorVars, textVars,
                   mainVars, stop_event, batch, total_consumed, max_docs,
                   offset, MESSAGES_CONSUMED, MESSAGES_FAILED, BATCHES_INDEXED,
                   flushes, last_poll, closed>>

\* Consumer(consumer_conf) or subscribe raises: both stand before the `try`,
\* so the task ends with the exception and nothing is closed
CreateConsumerFails ==
    /\ cstate = "created"
    /\ cstate' = "raised"
    /\ failed_dep' = "consumer"
    /\ UNCHANGED <<cacheVars, batchVars, storeVars, monitorVars, textVars,
                   main_pc, exit_code, stop_event, batch, total_consumed,
                   max_docs, offset, MESSAGES_CONSUMED, MESSAGES_FAILED,
                   BATCHES_INDEXED, flushes, last_poll, closed>>

\* start_monitor_server up to `await stop_event.wait()`: the site is started
\* and monitor_loop is scheduled
StartMonitor ==
    /\ mstate = "created"
    /\ mstate' = "serving"
    /\ UNCHANGED <<cacheVars, batchVars, storeVars, consumerVars, textVars,
                   mainVars, kafka_brokers, CURRENT_VECTORS, health_response,
                   probe>>

\* stop_event.wait() returns: monitor_loop is cancelled, the runner cleaned up
StopMonitor ==
    /\ mstate = "serving"
    /\ stop_event
    /\ mstate' = "stopped"
    /\ UNCHANGED <<cacheVars, batchVars, storeVars, consumerVars, textVars,
                   mainVars, kafka_brokers, CURRENT_VECTORS, health_response,
                   probe>>

\* runner.setup() or site.start() raises (the port is taken, say): both
\* stand before the `try`, so the task ends with the exception
MonitorFails ==
    /\ mstate = "created"
    /\ mstate' = "raised"
    /\ UNCHANGED <<cacheVars, batchVars, storeVars, consumerVars, textVars,
                   mainVars, kafka_brokers, CURRENT_VECTORS, health_response,
                   probe>>

\* where p.cancel() leaves run_consumer: a task that never ran is dropped, a
\* task suspended in an await (poll, sleep or _process_batch) gets
\* CancelledError, which is no Exception, so only `finally` runs; a worker
\* thread running index_batch is not interrupted
CancelledAt(pos) ==
    IF pos = "created" THEN "cancelled"
    ELSE IF pos \in {"loop", "flush", "final_flush"} THEN "closed"
    ELSE pos

\* where p.cancel() leaves start_monitor_server: `finally` cleans the runner
StoppedAt(pos) == IF pos \in {"created", "serving"} THEN "stopped" ELSE pos

\* asyncio.wait returns because a task raised: stop_event is set, the pending
\* task is cancelled, main_async returns 1; asyncio.run lets the cancelled
\* task finish before main() returns
MainTaskRaised ==
    /\ main_pc = "waiting"
    /\ cstate = "raised" \/ mstate = "raised"
    /\ ~OnEventLoop(cstate)
    /\ stop_event' = TRUE
    /\ mstate' = StoppedAt(mstate)
    /\ cstate' = CancelledAt(cstate)
    /\ closed' = IF cstate' = "closed" /\ cstate # "closed" THEN closed + 1
                 ELSE closed
    /\ main_pc' = "exited"
    /\ exit_code' = 1
    /\ UNCHANGED <<cacheVars, batchVars, storeVars, textVars, failed_dep,
                   batch, total_consumed, max_docs, offset,
                   MESSAGES_CONSUMED, MESSAGES_FAILED, BATCHES_INDEXED, flushes,
                   last_poll, kafka_brokers, CURRENT_VECTORS,
                   health_response, probe>>

\* asyncio.wait returns because both tasks are done, none with an exception:
\* main_async returns 0
MainAllDone ==
    /\ main_pc = "waiting"
    /\ cstate = "closed"
    /\ mstate = "stopped"
    /\ main_pc' = "exited"
    /\ exit_code' = 0
    /\ UNCHANGED <<cacheVars, batchVars, storeVars, consumerVars, monitorVars,
                   textVars, failed_dep>>

\* main() about to run main_async with max_docs = n
ServiceStart(n) ==
    /\ IndexerInit
    /\ min_content_length = 0
    /\ cstate = "off"
    /\ stop_event = FALSE
    /\ batch = <<>>
    /\ total_consumed = 0
    /\ max_docs = n
    /\ offset = 0
    /\ MESSAGES_CONSUMED = 0
    /\ MESSAGES_FAILED = 0
    /\ BATCHES_INDEXED = 0
    /\ flushes = <<>>
    /\ last_poll = "nothing yet"
    /\ closed = 0
    /\ kafka_brokers = <<"k">>
    /\ CURRENT_VECTORS = 0
    /\ health_response = NoResponse
    /\ probe = [qdrant |-> "none", supabase |-> "none"]
    /\ mstate = "off"
    /\ TextOff
    /\ main_pc = "constructing"
    /\ exit_code = 0
    /\ failed_dep = "none"

\* max_docs = 1 and a batch size that makes the one record flush by count (1)
\* or at the end (2)
ServiceInit == ServiceStart(1)

\* the steps of main() and main_async
MainStep ==
    \/ ConstructIndexer
    \/ ConstructIndexerFails
    \/ MainTaskRaised
    \/ MainAllDone

\* the steps of the monitor task and of its handlers
MonitorStep ==
    \/ StartMonitor
    \/ MonitorFails
    \/ StopMonitor
    \/ Health
    \/ Readiness
    \/ Metrics
    \/ MonitorLoop

ServiceNext ==
    \/ MainStep
    \/ CreateConsumer
    \/ CreateConsumerFails
    \/ ConsumerStep
    \/ IndexerStep
    \/ MonitorStep
    \/ SignalStop

ServiceSpec == ServiceInit /\ [][ServiceNext]_vars

\* the service without requests to the monitor, with max_docs = 2: a batch
\* size of 2 leaves the first record pending while the second is polled
ShutdownInit == ServiceStart(2)

ShutdownNext ==
    \/ MainStep
    \/ CreateConsumer
    \/ CreateConsumerFails
    \/ ConsumerStep
    \/ IndexerStep
    \/ StartMonitor
    \/ MonitorFails
    \/ StopMonitor
    \/ SignalStop

ShutdownSpec == ShutdownInit /\ [][ShutdownNext]_vars

\* run_consumer with max_docs = 2 next to a serving monitor that is asked
\* for /health, until it is done or the stop signal is given
ProbedInit == ConsumerInit /\ max_docs = 2

ProbedNext ==
    \/ ConsumerStep
    \/ IndexerStep
    \/ Health
    \/ SignalStop

ProbedSpec == ProbedInit /\ [][ProbedNext]_vars

\* the event loop keeps scheduling main_async and the two tasks, and the
\* worker thread keeps running
FairServiceSpec ==
    /\ ServiceSpec
    /\ WF_vars(MainStep)
    /\ WF_vars(CreateConsumer \/ CreateConsumerFails \/ ConsumerStep)
    /\ WF_vars(IndexerStep)
    /\ WF_vars(StartMonitor \/ MonitorFails)
    /\ WF_vars(StopMonitor)

----------------------------------------------------------------------------
\* build_embedding_text applied to one record

Letters == <<"a", "b", "c", "d", "e", "f", "g">>

\* one word of n letters, and a run of n blanks
Word(n) == [i \in 1..n |-> Letters[((i - 1) % Len(Letters)) + 1]]
Blanks(n) == [i \in 1..n |-> " "]

\* bodies around the long-content threshold, with and without surrounding
\* blanks, next to an absent, a null, a short and a very long one
Bodies ==
    {<<>>, None, <<"x">>, Word(2 * LongContent)}
    \cup {Blanks(l) \o Word(n) \o Blanks(t) :
            l \in 0..MaxPad, t \in 0..MaxPad,
            n \in (LongContent - MaxOver)..(LongContent + MaxOver)}

\* a description longer than max_embedding_length, one word
LongWord == Word(max_embedding_length + 1000)

\* descriptions: none; one long word; the same with an early newline, with
\* a late ". ", with a late newline, with one blank in the middle, with an
\* early ". "
Descriptions ==
    {<<>>,
     LongWord,
     [LongWord EXCEPT ![max_embedding_length \div 10] = "\n"],
     [LongWord EXCEPT ![(max_embedding_length * 9) \div 10] = ".",
                      ![(max_embedding_length * 9) \div 10 + 1] = " "],
     [LongWord EXCEPT ![(max_embedding_length * 9) \div 10] = "\n"],
     [LongWord EXCEPT ![max_embedding_length \div 2] = " "],
     [LongWord EXCEPT ![max_embedding_length \div 10] = ".",
                      ![max_embedding_length \div 10 + 1] = " "]}

\* the records build_embedding_text is applied to: those the validator lets
\* through (a URL, and a title or a body)
EmbedDocs ==
    {d \in {EmbedDoc(u, t, ds, b) :
              u \in {<<"a">>, <<"a", "b">>}, t \in {<<>>, <<"t">>},
              ds \in Descriptions, b \in Bodies} :
        Truthy(d.title) \/ Truthy(d.cleaned_text)}

EmbedInit ==
    /\ IndexerInit
    /\ min_content_length = 0
    /\ batch_size = 1
    /\ ConsumerOff
    /\ MonitorOff
    /\ MainOff
    /\ embed_doc \in EmbedDocs
    /\ pieces = NoPieces
    /\ joined = <<>>
    /\ embedding_text = None

EmbedNext == BuildEmbeddingText

EmbedSpec == EmbedInit /\ [][EmbedNext]_vars

----------------------------------------------------------------------------
\* Properties of validation and deduplication

Verdicts == 1..Len(vlog)

\* the record passes the field checks of _validate_document (URL present,
\* title or body present, body long enough)
FieldChecksPass(doc) == ValidateDocument(doc, {}, min_content_length) = "Valid"

\* C1: within one cache lifetime, once a record with some URL string has been
\* accepted, no later record carrying the same URL string (whatever the
\* string) is accepted, and a later one that passes the field checks is
\* counted as duplicate.
C1_SameUrlAcceptedOnce ==
    \A i, j \in Verdicts :
        (/\ i < j
         /\ vlog[i].doc.url = vlog[j].doc.url
         /\ vlog[i].verdict = "accepted")
        => /\ vlog[j].verdict # "accepted"
           /\ FieldChecksPass(vlog[j].doc) => vlog[j].verdict = "duplicate"

\* two verdicts on records with different (non-empty) URLs and the same
\* title and body
SameContentPair(i, j) ==
    /\ i < j
    /\ Truthy(vlog[i].doc.url) /\ Truthy(vlog[j].doc.url)
    /\ vlog[i].doc.url # vlog[j].doc.url
    /\ vlog[i].doc.title = vlog[j].doc.title
    /\ vlog[i].doc.cleaned_text = vlog[j].doc.cleaned_text

Count(x, seq) == Cardinality({i \in 1..Len(seq) : seq[i] = x})

\* C3: when no batch is in progress, every URL in the seen-URL set belongs to
\* a document written exactly once to the vector store and exactly once to
\* the relational store in this cache lifetime, and every seen content hash
\* is the hash of a stored document.
C3_SeenIffWrittenOnce ==
    ipc = "idle" =>
        /\ \A u \in url_cache :
               /\ Count(generate_doc_id(u), q_written) = 1
               /\ Count(generate_doc_id(u), s_written) = 1
        /\ \A h \in content_hashes : \E p \in qdrant_docs : p.content_hash = h

----------------------------------------------------------------------------
\* Properties of the two sinks and their retries

VectorSinks == {"qdrant", "qdrant_images"}

\* C4: a batch that ended with the vector-store retries exhausted has had its
\* relational rows offered to the relational store, and a batch that ended
\* with the relational-store retries exhausted has had its points offered to
\* the vector store.
C4_SinksAttemptedIndependently ==
    ipc = "idle" =>
        /\ (exhausted \cap VectorSinks # {} /\ supabase_rows # <<>>)
               => "supabase" \in attempted
        /\ ("supabase" \in exhausted /\ doc_points # <<>>)
               => "qdrant" \in attempted

\* C5: a batch in which the vector-store upsert failed on all attempts and no
\* relational-store call failed ends with its stats returned and with its
\* rows in the relational table.
C5_PerSinkOutcome ==
    (/\ ipc = "idle"
     /\ "qdrant" \in exhausted
     /\ "supabase" \notin exhausted)
    => /\ result = "returned"
       /\ Range(supabase_rows) \subseteq supabase_table

\* K - 1 failures followed by one success
FailsThenSucceeds(outcomes) ==
    /\ outcomes # <<>>
    /\ outcomes[Len(outcomes)]
    /\ \A i \in 1..(Len(outcomes) - 1) : ~outcomes[i]

\* C6: a retrying upsert whose sink fails on attempts 1..K-1 and succeeds on
\* attempt K <= retry_attempts returns right after that K-th call, having
\* logged K-1 warnings and no fatal error, and index_batch has not raised.
C6_RetrySucceedsAtK ==
    /\ (retry.outcomes # <<>> /\ retry.outcomes[Len(retry.outcomes)])
           => retry.status = "returned"
    /\ retry.status = "returned" =>
           /\ retry.calls \in 1..retry_attempts
           /\ Len(retry.outcomes) = retry.calls
           /\ FailsThenSucceeds(retry.outcomes)
           /\ retry.warnings = retry.calls - 1
           /\ retry.errors = 0
           /\ result # "raised"

\* the sink succeeded on the last allowed attempt
C6_Witness ==
    /\ retry.status = "returned"
    /\ retry.calls = retry_attempts
    /\ retry.warnings = retry_attempts - 1

\* C7: a retrying upsert makes at most retry_attempts sink calls; the backoff
\* slept after failed attempt i is 2^(i-1) seconds (so never shorter than
\* the one before); when every attempt failed it raises after exactly
\* retry_attempts calls, without a sleep after the last one, the fatal error
\* is logged once and index_batch raises.
C7_RetryExhausted ==
    /\ retry.calls <= retry_attempts
    /\ \A i \in 1..Len(retry.sleeps) : retry.sleeps[i] = 2 ^ (i - 1)
    /\ \A i \in 2..Len(retry.sleeps) : retry.sleeps[i] >= retry.sleeps[i - 1]
    /\ (retry.calls = retry_attempts /\ ~retry.outcomes[retry.calls])
           => retry.status = "raised"
    /\ retry.status = "raised" =>
           /\ retry.calls = retry_attempts
           /\ \A i \in 1..retry.calls : ~retry.outcomes[i]
           /\ Len(retry.sleeps) = retry_attempts - 1
           /\ retry.warnings = retry_attempts
           /\ retry.errors = 1
           /\ result = "raised"
           /\ ipc = "idle"

\* the relational-store upsert exhausted its retries
C7_Witness ==
    /\ retry.status = "raised"
    /\ retry.label = "rows"
    /\ "supabase" \in exhausted

----------------------------------------------------------------------------
\* Properties of the consumer loop

\* C8: whenever the loop is about to poll, fewer than batch_size records are
\* pending, and every count-triggered flush handed exactly batch_size
\* records to index_batch.
C8_FlushAtBatchSize ==
    /\ cstate = "loop" => Len(batch) < batch_size
    /\ \A k \in 1..Len(flushes) :
           flushes[k].kind = "count" => Len(flushes[k].offsets) = batch_size

\* a batch of more than one record is being flushed because it is full
C8_Witness ==
    /\ cstate = "flush"
    /\ batch_size > 1
    /\ Len(batch) = batch_size
    /\ flushes[Len(flushes)].kind = "count"

FlushedOffsets == UNION {Range(flushes[k].offsets) : k \in 1..Len(flushes)}

\* C9: a non-empty pending batch is eventually flushed, also when no further
\* message arrives, unless shutdown was signalled or the consumer has closed.
C9_PendingEventuallyFlushed ==
    (batch # <<>>)
        ~> (\/ Range(OffsetsOf(batch)) \subseteq FlushedOffsets
            \/ stop_event
            \/ cstate = "closed")

\* C10: no record is handed to index_batch twice: the offsets of all flushes
\* are pairwise different, and after a flush, whether index_batch returned
\* or raised, nothing that was flushed is still pending.
C10_NoRecordFlushedTwice ==
    /\ \A k, l \in 1..Len(flushes) :
           \A a \in 1..Len(flushes[k].offsets), b \in 1..Len(flushes[l].offsets) :
               (k # l \/ a # b) => flushes[k].offsets[a] # flushes[l].offsets[b]
    /\ cstate \in {"loop", "drain"} =>
           Range(OffsetsOf(batch)) \cap FlushedOffsets = {}

\* a second batch is flushed after index_batch raised for the first
C10_Witness ==
    /\ Len(flushes) = 2
    /\ cstate = "flush"
    /\ offset = 2
    /\ MESSAGES_FAILED = 1
    /\ BATCHES_INDEXED = 0

----------------------------------------------------------------------------
\* Properties of the consumer's shutdown and error handling

\* C11: on every shutdown path (stop signal, max_docs, exception in the loop,
\* cancellation) the pending batch has been handed to index_batch by the time
\* the consumer is closed: no decoded record is pending and unflushed then.
C11_PendingFlushedBeforeClose ==
    cstate = "closed" => Range(OffsetsOf(batch)) \subseteq FlushedOffsets

\* C12: once the loop has been entered consumer.close() is called exactly
\* once on every exit path: never twice, and run_consumer has ended exactly
\* when it has been called.
C12_CloseExactlyOnce ==
    /\ closed <= 1
    /\ cstate = "closed" <=> closed = 1

\* the task was cancelled or poll raised with a record pending, and the
\* consumer was closed
C12_Witness ==
    /\ cstate = "closed"
    /\ closed = 1
    /\ batch # <<>>
    /\ flushes = <<>>

\* C13: once the loop has seen the stop event (or has otherwise been left) no
\* poll is issued, and once the consumer is closed nothing is polled and no
\* batch is handed to index_batch any more.
C13_NoPollAfterStop ==
    [][/\ ((cstate = "loop" /\ stop_event) \/ cstate \in {"drain", "final_flush", "closed"})
          => /\ last_poll' = last_poll
             /\ offset' = offset
             /\ total_consumed' = total_consumed
             /\ batch' = batch
       /\ cstate = "closed"
          => /\ cstate' = "closed"
             /\ flushes' = flushes
             /\ closed' = closed]_vars

\* closed after a stop signal and a final flush, with messages left to poll
C13_Witness ==
    /\ cstate = "closed"
    /\ stop_event
    /\ offset < MaxMessages
    /\ Len(flushes) = 1
    /\ flushes[1].kind = "final"
    /\ ipc = "idle"

\* number of records handed to index_batch over all flushes
RECURSIVE FlushedCount(_)
FlushedCount(k) ==
    IF k = 0 THEN 0 ELSE Len(flushes[k].offsets) + FlushedCount(k - 1)

\* C14: with max_docs set the consumed count never exceeds max_docs, the
\* loop is left as soon as the count reaches it, the consumer then closes,
\* and by then every consumed record has been flushed exactly once.
C14_MaxDocsStops ==
    /\ [](max_docs > 0 => total_consumed <= max_docs)
    /\ []((max_docs > 0 /\ total_consumed = max_docs) => cstate # "loop")
    /\ []((max_docs > 0 /\ total_consumed = max_docs /\ cstate = "closed")
          => /\ FlushedCount(Len(flushes)) = total_consumed
             /\ Cardinality(FlushedOffsets) = total_consumed)
    /\ (max_docs > 0 /\ total_consumed = max_docs) ~> (cstate = "closed")

\* max_docs reached with a partly filled batch, which the final flush handed
\* over before the consumer closed
C14_Witness ==
    /\ cstate = "closed"
    /\ ~stop_event
    /\ max_docs = 1
    /\ total_consumed = 1
    /\ batch_size = 2
    /\ Len(flushes) = 1
    /\ flushes[1].kind = "final"

\* C15: a message that cannot be decoded is skipped: the pending batch and
\* the consumed counts are unchanged, the failed-message counter goes up by
\* one, and the loop goes on polling.
C15_UndecodableSkipped ==
    [][(last_poll' = "undecodable" /\ offset' = offset + 1)
       => /\ batch' = batch
          /\ total_consumed' = total_consumed
          /\ MESSAGES_CONSUMED' = MESSAGES_CONSUMED
          /\ MESSAGES_FAILED' = MESSAGES_FAILED + 1
          /\ flushes' = flushes
          /\ cstate' = "loop"
          /\ closed' = closed]_vars

\* a message was consumed after an undecodable one had been skipped
C15_Witness ==
    /\ last_poll = "message"
    /\ offset = 2
    /\ total_consumed = 1
    /\ MESSAGES_FAILED = 1
    /\ flushes = <<>>
    /\ cstate = "loop"

\* C16: when index_batch raised for a batch flushed by count, _process_batch
\* returns normally: the failed-message counter goes up by one, the
\* batches-indexed counter does not, the batch is cleared and the consumer
\* goes back to the loop (or to the max_docs exit).
C16_BatchFailureCaught ==
    [][(/\ cstate = "flush" /\ cstate' \in {"loop", "drain"}
        /\ result = "raised")
       => /\ MESSAGES_FAILED' = MESSAGES_FAILED + 1
          /\ BATCHES_INDEXED' = BATCHES_INDEXED
          /\ batch' = <<>>
          /\ closed' = closed
          /\ cstate' = "drain" <=> ReachedMaxDocs(total_consumed)]_vars

\* a batch was indexed after index_batch had raised for the one before it
C16_Witness ==
    /\ Len(flushes) = 2
    /\ offset = 2
    /\ MESSAGES_FAILED = 1
    /\ BATCHES_INDEXED = 1
    /\ result = "returned"
    /\ cstate = "loop"

----------------------------------------------------------------------------
\* Properties of embedding failures and of images without a caption

\* C17: when the document encode call fails, index_batch raises and no sink
\* has been or is written for the batch: nothing was upserted before the
\* embedding phase, and the failing step leaves both stores as they were.
C17_DocEmbeddingFailureWritesNothing ==
    /\ [](ipc = "embed" => attempted = {} /\ retry = NoRetry)
    /\ [][(ipc = "embed" /\ ipc' = "idle")
          => /\ result' = "raised"
             /\ attempted' = {}
             /\ qdrant_docs' = qdrant_docs
             /\ qdrant_images' = qdrant_images
             /\ supabase_table' = supabase_table
             /\ q_written' = q_written
             /\ s_written' = s_written]_vars

\* index_batch raised in the embedding phase of a batch with an accepted
\* document, and both stores are empty
C17_Witness ==
    /\ ipc = "idle"
    /\ result = "raised"
    /\ valid_docs # <<>>
    /\ attempted = {}
    /\ qdrant_docs = {}
    /\ supabase_table = {}

\* the image encode call of the batch raised: there were captions to encode,
\* the embedding phase is over without image embeddings, and it was not the
\* document encode call that ended the batch
ImageEmbeddingFailed ==
    /\ ipc # "embed"
    /\ result # "none"
    /\ valid_docs # <<>>
    /\ ValidCaptions(valid_images, 1) # <<>>
    /\ img_embeddings = <<>>
    /\ ~(ipc = "idle" /\ result = "raised" /\ attempted = {})

\* C18: when the image encode call fails, the failure is not propagated: no
\* image point is built or upserted, index_batch raises only if a sink
\* exhausts its retries, and when it returns the batch's document points
\* have been upserted to Qdrant and its rows handed to Supabase.
C18_ImageEmbeddingFailureNotFatal ==
    ImageEmbeddingFailed
    => /\ img_points = <<>>
       /\ ipc # "qdrant_images"
       /\ "qdrant_images" \notin attempted
       /\ (ipc = "idle" /\ result = "raised") => exhausted # {}
       /\ (ipc = "idle" /\ exhausted = {}) => result = "returned"
       /\ (ipc = "idle" /\ result = "returned" /\ doc_points # <<>>)
          => /\ {"qdrant", "supabase"} \subseteq attempted
             /\ \A p \in Range(doc_points) :
                    \E q \in qdrant_docs : q.id = p.id

\* a batch whose image encode call failed returned with its document in
\* both stores and no image point anywhere
C18_Witness ==
    /\ ImageEmbeddingFailed
    /\ ipc = "idle"
    /\ result = "returned"
    /\ doc_points # <<>>
    /\ qdrant_images = {}
    /\ supabase_table # {}

\* C19: an image of the batch whose built caption is empty gets no vector:
\* no image point is built for it and none is upserted for it.
C19_CaptionlessImageGetsNoPoint ==
    \A j \in 1..Len(valid_images) :
        ~Truthy(BuildImageCaption(valid_images[j]))
        => /\ valid_images[j].id \notin Range(Ids(img_points))
           /\ valid_images[j].id \notin {p.id : p \in qdrant_images}

----------------------------------------------------------------------------
\* Properties of the health endpoint

\* C20: the /health response says "ok" exactly when both the vector-store
\* check and the relational-store check of that probe succeeded, and
\* "degraded" otherwise, whatever the broker configuration.
C20_HealthDegradedOnFailure ==
    health_response # NoResponse
    => /\ health_response.status \in {"ok", "degraded"}
       /\ health_response.status = "ok"
          <=> (probe.qdrant = "ok" /\ probe.supabase = "ok")

----------------------------------------------------------------------------
\* Properties of the batch statistics, the validator and the document ids

\* C21: when index_batch returns, the counters partition the input:
\* total_docs = successful_docs + failed_docs + duplicate_docs, with
\* total_docs the size of the batch and successful_docs the number of
\* accepted documents, also when a point could not be built.
C21_StatsPartitionInput ==
    (ipc = "idle" /\ result = "returned")
    => /\ stats.total_docs = Len(documents)
       /\ stats.successful_docs = Len(valid_docs)
       /\ stats.total_docs =
              stats.successful_docs + stats.failed_docs + stats.duplicate_docs

\* the body is present (neither empty nor null) and shorter than the minimum
BodyTooShort(doc) ==
    Truthy(doc.cleaned_text) /\ Len(doc.cleaned_text) < min_content_length

\* C22: a record without URL, or without title and body, or with a body
\* shorter than the configured minimum is rejected and counted as failed,
\* not as duplicate; a record with an empty body, a title and a URL passes
\* validation (it is accepted, or rejected only as a repeat).
C22_ValidatorRejections ==
    \A i \in Verdicts :
        LET doc == vlog[i].doc
        IN  /\ (\/ ~Truthy(doc.url)
                \/ (~Truthy(doc.title) /\ ~Truthy(doc.cleaned_text))
                \/ BodyTooShort(doc))
               => vlog[i].verdict = "failed"
            /\ (Truthy(doc.url) /\ Truthy(doc.title) /\ doc.cleaned_text = <<>>)
               => vlog[i].verdict \in {"accepted", "duplicate"}

\* with a minimum of 2, a one-character body was rejected as failed and a
\* record with a title and an empty body was accepted
C22_Witness ==
    /\ min_content_length = 2
    /\ \E i, j \in Verdicts :
         /\ BodyTooShort(vlog[i].doc) /\ Truthy(vlog[i].doc.url)
         /\ vlog[i].verdict = "failed"
         /\ vlog[j].doc.cleaned_text = <<>>
         /\ vlog[j].verdict = "accepted"

\* C23: the id of a document is a function of its URL string alone, so over
\* any sequence of batches and cache resets each store holds at most one
\* entry per URL, filed under the id of that URL.
C23_OneEntryPerUrl ==
    /\ \A p, q \in qdrant_docs : p.url = q.url => p = q
    /\ \A p, q \in supabase_table : p.url = q.url => p = q
    /\ \A p \in qdrant_docs \cup supabase_table : p.id = generate_doc_id(p.url)

\* the URL "a" was indexed again after the caches had been emptied: Qdrant
\* holds the one point of its second version, Supabase the row written in
\* the first cache lifetime
C23_Witness ==
    /\ vlog = << [doc |-> PageA2, verdict |-> "accepted"] >>
    /\ Cardinality(qdrant_docs) = 1
    /\ q_written = << generate_doc_id(<<"a">>) >>
    /\ s_written = <<>>
    /\ supabase_table # {}

----------------------------------------------------------------------------
\* Properties of the embedding text

\* build_embedding_text has returned
Built == embedding_text # None

\* the piece is the first HeadLen characters of b, the separator and the last
\* TailLen characters of b
IsHeadAndTail(piece, b) ==
    /\ Len(piece) = HeadLen + Len(Ellipsis) + TailLen
    /\ \A i \in 1..HeadLen : piece[i] = b[i]
    /\ \A i \in 1..Len(Ellipsis) : piece[HeadLen + i] = Ellipsis[i]
    /\ \A i \in 1..TailLen :
           piece[HeadLen + Len(Ellipsis) + i] = b[Len(b) - TailLen + i]

\* C24 as stated: for a body of length L > 4000 the body piece is exactly
\* the first 2000 characters of the body, the ellipsis separator and the last
\* 1000 characters of the body; for L <= 4000 the body is included whole.
C24_BodyHeadAndTail ==
    (Built /\ Truthy(embed_doc.cleaned_text))
    => LET body == embed_doc.cleaned_text
       IN  /\ Len(pieces.content) = 1
           /\ IF Len(body) > LongContent
              THEN IsHeadAndTail(pieces.content[1], body)
              ELSE pieces.content[1] = body

\* C24, amended: with L the length of the body after its leading and
\* trailing whitespace is stripped, for L > 4000 the body piece is exactly
\* the first 2000 characters of the stripped body, the ellipsis separator and
\* its last 1000 characters; for L <= 4000 the stripped body is included
\* whole.
C24_StrippedBodyHeadAndTail ==
    (Built /\ Truthy(embed_doc.cleaned_text))
    => LET body == Strip(embed_doc.cleaned_text)
       IN  /\ Len(pieces.content) = 1
           /\ IF Len(body) > LongContent
              THEN IsHeadAndTail(pieces.content[1], body)
              ELSE pieces.content[1] = body

\* a padded body just over the threshold was cut, and a padded body whose
\* stripped length is the threshold was kept whole
C24_Witness ==
    /\ Built
    /\ Truthy(embed_doc.cleaned_text)
    /\ Head(embed_doc.cleaned_text) = " "
    /\ Len(Strip(embed_doc.cleaned_text)) = LongContent + 1
    /\ Len(pieces.content[1]) = HeadLen + Len(Ellipsis) + TailLen

\* the text was cut: the joined pieces were longer than the maximum
Truncated == Built /\ Len(joined) > max_embedding_length

\* length of the cut prefix joined[:max_embedding_length]
CutLen == IF Len(joined) < max_embedding_length THEN Len(joined)
          ELSE max_embedding_length

\* positions (1-based) of the cut prefix holding the "." of a ". ", or a
\* newline
SentenceEnds == {i \in 1..(CutLen - 1) : joined[i] = "." /\ joined[i + 1] = " "}
Newlines == {i \in 1..CutLen : joined[i] = "\n"}
HasBlank == \E i \in 1..CutLen : joined[i] = " "

\* the returned text is a prefix of the joined pieces that stops at the end
\* of a line or right before whitespace
EndsAtBoundary ==
    LET n == Len(embedding_text)
    IN  /\ n > 0
        /\ embedding_text = SubSeq(joined, 1, n)
        /\ \/ embedding_text[n] = "\n"
           \/ IsSpace(joined[n + 1])

\* C25 as stated: the returned text is never longer than
\* max_embedding_length, and when the text was cut and the cut prefix holds a
\* sentence, newline or word boundary, the result ends at such a boundary.
C25_MaxLengthAtBoundary ==
    Built
    => /\ Len(embedding_text) <= max_embedding_length
       /\ (Truncated /\ (SentenceEnds # {} \/ Newlines # {} \/ HasBlank))
          => EndsAtBoundary

\* a sentence end or newline of the cut prefix that lies beyond 0.8 times
\* the maximum (0-based index i - 1 > 0.8 * max_embedding_length)
Late(S) == {i \in S : (i - 1) * 10 > max_embedding_length * 8}

\* C25, amended: the returned text is never longer than
\* max_embedding_length, and when the text was cut and the cut prefix holds a
\* sentence or newline boundary beyond 80% of the maximum, or a blank, the
\* result ends at a sentence, newline or word boundary.
C25_MaxLengthAtQualifiedBoundary ==
    Built
    => /\ Len(embedding_text) <= max_embedding_length
       /\ (Truncated /\ (Late(SentenceEnds) # {} \/ Late(Newlines) # {}
                          \/ HasBlank))
          => EndsAtBoundary

\* a text cut after a late sentence end
C25_Witness ==
    /\ Truncated
    /\ Late(SentenceEnds) # {}
    /\ embedding_text[Len(embedding_text)] = "."
    /\ Len(embedding_text) < max_embedding_length

----------------------------------------------------------------------------
\* Properties of the service: the monitor next to the consumer, and start-up

\* the consumer is suspended in a poll or in a flush
ConsumerBusy == cstate \in {"loop", "flush", "final_flush"}

C27_StartupFailureExits ==
    /\ [](failed_dep # "none"
          => /\ cstate \in {"off", "raised"}
             /\ last_poll = "nothing yet"
             /\ offset = 0
             /\ main_pc = "exited" => exit_code # 0)
    /\ (failed_dep # "none") ~> (main_pc = "exited" /\ exit_code # 0)

\* the broker consumer could not be created and the process exited with 1
C27_Witness ==
    /\ failed_dep = "consumer"
    /\ cstate = "raised"
    /\ main_pc = "exited"
    /\ exit_code = 1

----------------------------------------------------------------------------
\* Properties of idle polls, of the dedup cache and of the record order

IdlePolls == {"none", "partition_eof", "error"}

\* C28: a poll that returns nothing, an end-of-partition signal or a broker
\* error leaves the pending batch, the consumed count and the dedup cache
\* unchanged and starts no flush, and the consumer is polling again
\* afterwards.
C28_IdlePollChangesNothing ==
    [][(last_poll' \in IdlePolls /\ last_poll' # last_poll)
       => /\ cstate = "loop" /\ cstate' = "loop"
          /\ batch' = batch
          /\ total_consumed' = total_consumed
          /\ url_cache' = url_cache
          /\ content_hashes' = content_hashes
          /\ flushes' = flushes
          /\ documents' = documents
          /\ ipc' = ipc]_vars

\* a broker error arrived with one record pending, after a flush filled the
\* cache
C28_Witness ==
    /\ last_poll = "error"
    /\ cstate = "loop"
    /\ Len(batch) = 1
    /\ total_consumed = 3
    /\ url_cache # {}
    /\ Len(flushes) = 1

\* the records accepted by the step, read off the verdicts it appended
NewlyAccepted ==
    {vlog'[i].doc : i \in {j \in (Len(vlog) + 1)..Len(vlog') :
                              vlog'[j].verdict = "accepted"}}

\* C29: the two cache sets start empty; a step other than cleanup_cache
\* removes nothing and adds exactly the URLs and the content hashes of the
\* records it accepted (a rejected record adds nothing); cleanup_cache
\* empties both sets.
C29_CacheGrowsUntilCleanup ==
    /\ (ndocs = 0 => url_cache = {} /\ content_hashes = {})
    /\ [][IF vlog # <<>> /\ vlog' = <<>>
          THEN url_cache' = {} /\ content_hashes' = {}
          ELSE /\ url_cache' = url_cache \cup {d.url : d \in NewlyAccepted}
               /\ content_hashes' =
                      content_hashes
                      \cup {ComputeContentHash(d) : d \in NewlyAccepted}]_vars

\* the caches were emptied after two records had been handed over, one of
\* which was written
C29_Witness ==
    /\ ndocs = 2
    /\ vlog = <<>>
    /\ url_cache = {}
    /\ content_hashes = {}
    /\ qdrant_docs # {}

\* s is t with some elements left out, the others in the order of t, where
\* Same(x, y) says that x was made from y
InOrderOf(s, t, Same(_, _)) ==
    \E f \in [1..Len(s) -> 1..Len(t)] :
        /\ \A i, j \in 1..Len(s) : i < j => f[i] < f[j]
        /\ \A i \in 1..Len(s) : Same(s[i], t[f[i]])

SameRecord(v, d) ==
    v.url = d.url /\ v.title = d.title /\ v.cleaned_text = d.cleaned_text
SameId(p, v) == p.id = v.id /\ p.url = v.url

\* C30: every flushed batch holds the decoded records in broker delivery
\* order, index_batch receives them in that order, and the accepted
\* documents, the points and the rows of the batch keep that relative order.
C30_OrderPreserved ==
    /\ \A k \in 1..Len(flushes) :
          \A i, j \in 1..Len(flushes[k].offsets) :
              i < j => flushes[k].offsets[i] < flushes[k].offsets[j]
    /\ cstate \in {"flush", "final_flush"}
       => /\ Len(documents) = Len(batch)
          /\ \A i \in 1..Len(batch) : documents[i] = batch[i].doc
          /\ flushes[Len(flushes)].offsets = OffsetsOf(batch)
    /\ InOrderOf(valid_docs, documents, SameRecord)
    /\ InOrderOf(doc_points, valid_docs, SameId)
    /\ InOrderOf(supabase_rows, valid_docs, SameId)

\* a batch of two different accepted records, delivered around an
\* undecodable message, with its points and rows built
C30_Witness ==
    /\ cstate = "flush"
    /\ flushes[Len(flushes)].offsets = <<1, 3>>
    /\ Len(valid_docs) = 2
    /\ valid_docs[1].url # valid_docs[2].url
    /\ Len(doc_points) = 2
    /\ Len(supabase_rows) = 2

----------------------------------------------------------------------------
\* Properties of the sink calls of one batch

\* the image chunks of this batch that were upserted, in the order of the calls
ImageCalls == SelectSeq(sent, LAMBDA c : c.label = "images")

RECURSIVE Flatten(_, _)
\* the ids of calls[i..], one after the other
Flatten(calls, i) ==
    IF i > Len(calls) THEN <<>> ELSE calls[i].ids \o Flatten(calls, i + 1)

\* the image points up to the current chunk start are exactly the ids of the
\* chunks sent, in index order; every chunk but the last has `size` points
\* and the last has between 1 and `size`; when the image loop is over, every
\* image point has been sent
Chunked(size) ==
    LET calls == ImageCalls
    IN  /\ Flatten(calls, 1)
             = Ids(SubSeq(img_points, 1, Min(chunk, Len(img_points))))
        /\ \A i \in 1..Len(calls) : Len(calls[i].ids) \in 1..size
        /\ \A i \in 1..(Len(calls) - 1) : Len(calls[i].ids) = size
        /\ ipc = "supabase" => Flatten(calls, 1) = Ids(img_points)

\* the chunk size can be set without changing the ingest batch size
SeparatelyConfigured ==
    \E s, t \in BatchSizes : /\ IngestBatchSizeOf(s) = IngestBatchSizeOf(t)
                             /\ ImageChunkSizeOf(s) # ImageChunkSizeOf(t)

\* C31 as stated: the image upsert is split into consecutive chunks of a
\* fixed size that is configured separately from the ingest batch size; every
\* image point is sent in exactly one chunk, in index order, and no chunk
\* exceeds the chunk size
C31_ChunksOfSeparateSize ==
    /\ SeparatelyConfigured
    /\ Chunked(ImageChunkSizeOf(batch_size))

\* C31 amended: the image upsert is split into consecutive chunks whose fixed
\* size is config.batch_size, the setting that is also the ingest batch size;
\* every image point is sent in exactly one chunk, in index order, and no
\* chunk exceeds that size
C31_ChunksOfBatchSize ==
    /\ \A s \in BatchSizes : ImageChunkSizeOf(s) = IngestBatchSizeOf(s)
    /\ Chunked(batch_size)

\* an image upsert that took two chunks is over
C31_Witness ==
    /\ ipc = "supabase"
    /\ Len(ImageCalls) >= 2
    /\ Len(img_points) >= 2

----------------------------------------------------------------------------
\* Properties of the consumer next to the health probe

\* C32: batches are processed one after the other: index_batch is in
\* progress only while the consumer awaits that flush, a batch starts only
\* when none is in progress, the dedup cache changes only in a step of the
\* one index_batch, and a /health request leaves the dedup cache as it is.
C32_OneBatchAtATime ==
    /\ [](ipc # "idle" => cstate \in {"flush", "final_flush"})
    /\ [][flushes' # flushes
          => /\ ipc = "idle"
             /\ Len(flushes') = Len(flushes) + 1
             /\ cstate \notin {"flush", "final_flush"}]_vars
    /\ [][(url_cache' # url_cache \/ content_hashes' # content_hashes)
          => flushes' # flushes]_vars
    /\ [][(probe' # probe \/ health_response' # health_response)
          => /\ url_cache' = url_cache
             /\ content_hashes' = content_hashes
             /\ ipc' = ipc]_vars

\* /health has counted the two points while the second batch, started after
\* the first was over, is still in its relational upsert
C32_Witness ==
    /\ Len(flushes) = 2
    /\ BATCHES_INDEXED = 1
    /\ cstate = "flush"
    /\ ipc = "supabase"
    /\ probe.qdrant = "ok"
    /\ CURRENT_VECTORS = 2
    /\ Cardinality(url_cache) = 2

----------------------------------------------------------------------------
\* Properties of the shutdown

Flushing == {"flush", "final_flush"}

\* C33: while main_async waits for its tasks, a consumer that the stop signal
\* found in a flush leaves the flush only when index_batch is over, with the
\* batch counted as indexed or as failed, and the broker consumer is closed
\* only when no index_batch is in progress.
C33_SignalLetsFlushFinish ==
    /\ [][(stop_event /\ cstate \in Flushing /\ cstate' \notin Flushing
           /\ main_pc' = "waiting")
          => /\ ipc = "idle"
             /\ result \in {"returned", "raised"}
             /\ BATCHES_INDEXED' + MESSAGES_FAILED'
                    = BATCHES_INDEXED + MESSAGES_FAILED + 1]_vars
    /\ [][(closed' # closed /\ main_pc' = "waiting")
          => ipc = "idle" /\ ipc' = "idle"]_vars

\* the stop signal arrived during the flush of the one batch, index_batch has
\* returned with the point written, and the consumer is not closed yet
C33_Witness ==
    /\ stop_event
    /\ cstate \in Flushing
    /\ main_pc = "waiting"
    /\ ipc = "idle"
    /\ result = "returned"
    /\ Len(flushes) = 1
    /\ qdrant_docs # {}
    /\ closed = 0

\* C34: when main_async finds that one of its two tasks raised, it sets the
\* stop event, leaves no task running and returns 1; and a consumer closed on
\* such an exit has drained: no decoded record is pending and unflushed.
C34_TaskFailureDrains ==
    /\ [][(main_pc = "waiting" /\ main_pc' = "exited"
           /\ (cstate = "raised" \/ mstate = "raised"))
          => /\ stop_event'
             /\ exit_code' = 1
             /\ cstate' \in {"raised", "closed", "cancelled"}
             /\ mstate' \in {"raised", "stopped"}]_vars
    /\ []((main_pc = "exited" /\ exit_code = 1 /\ cstate = "closed")
          => Range(OffsetsOf(batch)) \subseteq FlushedOffsets)

----------------------------------------------------------------------------
\* Properties of the points and rows of one batch

\* C35: every image point built for the batch carries the embedding of the
\* caption of the image it is the point of: of an image of the batch with
\* the point's id.
C35_ImageVectorOfOwnCaption ==
    \A p \in Range(img_points) :
        \E j \in 1..Len(valid_images) :
            /\ valid_images[j].id = p.id
            /\ p.vector = Encode(BuildImageCaption(valid_images[j]))

\* the ids a sink was called with in this batch
OfferedTo(sink, items) ==
    IF sink \in attempted THEN Range(Ids(items)) ELSE {}

\* the points and the rows built for the batch have the same ids
BuiltAlike == Range(Ids(doc_points)) = Range(Ids(supabase_rows))

\* C36: the points built for the document collection and the rows built for
\* the relational store have the same ids, and when index_batch is over the
\* ids the vector store was called with are the ids the relational store was
\* called with.
C36_SameIdsToBothStores ==
    /\ BuiltAlike
    /\ ipc = "idle"
       => OfferedTo("qdrant", doc_points) = OfferedTo("supabase", supabase_rows)

----------------------------------------------------------------------------
\* Properties of the end of the service

\* C37: once the consumer task has ended by itself, with no stop signal
\* given, the monitor eventually serves no more (it is stopped, or it never
\* started) and main_async has returned.
C37_ServiceEndsWithConsumer ==
    (cstate = "closed" /\ ~stop_event /\ main_pc = "waiting")
    ~> (mstate \in {"stopped", "raised"} /\ main_pc = "exited")

----------------------------------------------------------------------------
\* Properties of a batch without a valid record, and of the order of the calls

\* C38: index_batch on a non-empty batch of which validation and
\* deduplication accept no record returns at once: no embedding is computed,
\* no sink is called, the stores and the dedup cache are as before, and the
\* stats have successful_docs = 0 and failed_docs + duplicate_docs =
\* total_docs, the length of the batch.
C38_AllRejectedBatchIsNoOp ==
    [][(ndocs' > ndocs /\ valid_docs' = <<>>)
       => /\ ipc' = "idle"
          /\ result' = "returned"
          /\ img_embeddings' = <<>>
          /\ doc_points' = <<>> /\ img_points' = <<>> /\ supabase_rows' = <<>>
          /\ attempted' = {} /\ sent' = <<>>
          /\ retry' = NoRetry
          /\ UNCHANGED <<qdrant_docs, qdrant_images, supabase_table>>
          /\ UNCHANGED <<url_cache, content_hashes>>
          /\ stats'.total_docs = Len(documents')
          /\ stats'.successful_docs = 0
          /\ stats'.failed_docs + stats'.duplicate_docs = stats'.total_docs]_vars

\* a batch whose one record is a duplicate of a record indexed before has
\* returned
C38_Witness ==
    /\ ipc = "idle"
    /\ result = "returned"
    /\ Len(documents) = 1
    /\ valid_docs = <<>>
    /\ stats.successful_docs = 0
    /\ stats.duplicate_docs = 1
    /\ attempted = {}
    /\ url_cache # {}
    /\ qdrant_docs # {}

\* the place of a sink call in _create_and_upsert_points
Rank(label) ==
    CASE label = "documents" -> 1
      [] label = "images" -> 2
      [] label = "rows" -> 3

Returned(label) == \E i \in 1..Len(sent) : sent[i].label = label

\* C39: the calls that returned came in the order documents, image chunks,
\* rows, with one documents call and one rows call at most and the chunks in
\* index order; and a sink is called only when every earlier step is over:
\* attempts of one retrying call are not interleaved with another call, the
\* documents call is the first, a chunk is attempted after the documents
\* call returned and it is the chunk after those that returned, and the rows
\* call is attempted after the documents call and every chunk returned.
C39_SinkCallsInOrder ==
    /\ [](\A i, j \in 1..Len(sent) :
            i < j => /\ Rank(sent[i].label) <= Rank(sent[j].label)
                     /\ sent[i].label = sent[j].label
                        => sent[i].label = "images")
    /\ [](Flatten(ImageCalls, 1)
            = Ids(SubSeq(img_points, 1, Len(Flatten(ImageCalls, 1)))))
    /\ [][(retry' # retry /\ retry'.label # "none")
          => LET docs_done == doc_points = <<>> \/ Returned("documents")
                 imgs_done == Flatten(ImageCalls, 1) = Ids(img_points)
             IN  /\ retry.status = "running" => retry'.label = retry.label
                 /\ retry'.label = "documents" => sent = <<>>
                 /\ retry'.label = "images"
                    => /\ docs_done /\ ~imgs_done /\ ~Returned("rows")
                       /\ chunk = Len(Flatten(ImageCalls, 1))
                 /\ retry'.label = "rows"
                    => docs_done /\ imgs_done /\ ~Returned("rows")]_vars

\* a batch has returned after the documents call, two image chunks and the
\* rows call, the last one retried
C39_Witness ==
    /\ ipc = "idle"
    /\ result = "returned"
    /\ [i \in 1..Len(sent) |-> sent[i].label]
           = <<"documents", "images", "images", "rows">>
    /\ retry.label = "rows"
    /\ retry.warnings > 0

====
